---- MODULE Spec2Model ----
(***************************************************************************)
(* Authentication subsystem of the lianglian_rag web application:          *)
(* Token Codec (lib/auth/jwt.ts), Token Store (lib/auth/token-storage.ts), *)
(* Password Hasher (lib/auth/password.ts), the auth and user routers, the  *)
(* Request Authenticator (server/api/middleware/auth), the tRPC procedure  *)
(* builders (server/api/trpc.ts), the client auth store                    *)
(* (contexts/auth-context.tsx) and the Route Guard (middleware.ts).        *)
(*                                                                         *)
(* Values.  A string the code only compares is a TLA+ string.  A value the *)
(* code takes apart is a record of the parts the code looks at:            *)
(*   email    [name, upper, pad, fmt]   upper: has an upper-case letter,   *)
(*            pad: has surrounding blanks, fmt: the trimmed text is an     *)
(*            e-mail address                                              *)
(*   password [id, len, lower, upper, digit, special, blank]               *)
(*   token    [empty, segs, garble, payload, sig]   the compact JWT text:  *)
(*            segs dot-separated segments, garble says which segment does  *)
(*            not decode ("emptySegment": header or payload is empty, as   *)
(*            in 'a..b'),                                                  *)
(*            sig is the HMAC as the pair (key, signed payload)            *)
(* Time is in seconds.                                                     *)
(***************************************************************************)
EXTENDS Integers, Sequences, FiniteSets, TLC

VARIABLES secret, now, users, nextId, tok, cookie, store, flight, last

vars == <<secret, now, users, nextId, tok, cookie, store, flight, last>>

(***************************************************************************)
(* Bounds of the model                                                     *)
(***************************************************************************)
\* clock steps the model takes
MaxTicks == 2
\* redirects the browser follows for one navigation
MaxHops == 4
\* seconds per clock step
TickSeconds == 43200
\* user records ever created
MaxUsers == 2
\* manual edits of one stored cookie
MaxEdits == 1

(***************************************************************************)
(* Program constants                                                       *)
(***************************************************************************)
\* JWT_CONFIG.EXPIRY = '24h', in seconds
EXPIRY_SECONDS == 86400
MIN_LENGTH == 8
MAX_LENGTH == 128

SECRET_MISSING == "JWT secret is not configured"
TOKEN_EXPIRED == "Token has expired"
TOKEN_INVALID == "Token is invalid"
TOKEN_MALFORMED == "Token is malformed"

\* process.env.JWT_SECRET; "" stands for unset or blank
Secrets == {"", "k1", "k2"}

UserIds == {"u1", "u2", "u3"}

Email(n, u, p, f) == [name |-> n, upper |-> u, pad |-> p, fmt |-> f]
EmailNames == {"a", "b"}
\* e-mail texts a caller may send
RawEmails == {Email(n, u, p, f) : n \in EmailNames, u \in BOOLEAN, p \in BOOLEAN, f \in BOOLEAN}
\* String.prototype.trim and toLowerCase on an e-mail text
Trim(e) == [e EXCEPT !.pad = FALSE]
ToLowerCase(e) == [e EXCEPT !.upper = FALSE]

(***************************************************************************)
(* Token Codec                                                             *)
(***************************************************************************)
Payload(uid, em, iat) == [userId |-> uid, email |-> em, iat |-> iat, exp |-> iat + EXPIRY_SECONDS]

\* HS256 over header.payload with key k: equal MACs iff equal key and payload
Hmac(k, p) == [key |-> k, over |-> p]

JwtText(p, s) == [empty |-> FALSE, segs |-> 3, garble |-> "none", payload |-> p, sig |-> s]

\* the empty string
EmptyToken == [JwtText(Payload("u1", Email("a", FALSE, FALSE, TRUE), 0), Hmac("none", Payload("u1", Email("a", FALSE, FALSE, TRUE), 0)))
                 EXCEPT !.empty = TRUE, !.segs = 1]

Ok(v) == [ok |-> TRUE, value |-> v, error |-> "none"]
Err(m) == [ok |-> FALSE, value |-> "none", error |-> m]

\* getJWTSecret: throws when the secret is unset or blank
getJWTSecret(s) == IF s = "" THEN Err(SECRET_MISSING) ELSE Ok(s)

\* a sign whose tokens expire one hour after they are issued
jwt_sign_OneHour(p, s, t) ==
    JwtText([Payload(p.userId, p.email, t) EXCEPT !.exp = t + 3600],
            Hmac(s, [Payload(p.userId, p.email, t) EXCEPT !.exp = t + 3600]))

\* jsonwebtoken's sign with expiresIn '24h' and HS256: iat = now, exp = iat + 24h
jwt_sign(p, s, t) == JwtText(Payload(p.userId, p.email, t), Hmac(s, Payload(p.userId, p.email, t)))

\* a sign payload as the caller passes it: any field may be missing or blank
SignInput(uid, em) == [isObject |-> TRUE, userId |-> uid, email |-> em]
\* the empty or all-blank e-mail text
BlankEmail == Email("", FALSE, FALSE, FALSE)
NotAnObject == [isObject |-> FALSE, userId |-> "", email |-> BlankEmail]

\* signJWT that reads the secret before it looks at the payload
signJWT_SecretFirst(p, s, t) ==
    IF ~getJWTSecret(s).ok THEN getJWTSecret(s)
    ELSE IF ~p.isObject THEN Err("Invalid payload: payload must be an object")
    ELSE IF p.userId = "" THEN Err("Invalid payload: userId is required and must be a non-empty string")
    ELSE IF p.email.name = "" THEN Err("Invalid payload: email is required and must be a non-empty string")
    ELSE Ok(jwt_sign(p, s, t))

signJWT(p, s, t) ==
    IF ~p.isObject THEN Err("Invalid payload: payload must be an object")
    ELSE IF p.userId = "" THEN Err("Invalid payload: userId is required and must be a non-empty string")
    ELSE IF p.email.name = "" THEN Err("Invalid payload: email is required and must be a non-empty string")
    ELSE IF ~getJWTSecret(s).ok THEN getJWTSecret(s)
    ELSE Ok(jwt_sign(p, s, t))

JwtError(n, m) == [failed |-> TRUE, name |-> n, message |-> m]
JwtDecoded == [failed |-> FALSE, name |-> "none", message |-> "none"]

\* a verify that looks at the expiry before the signature
jwt_verify_ExpiryFirst(t, s, clock) ==
    IF t.segs # 3 THEN JwtError("JsonWebTokenError", "jwt malformed")
    ELSE IF t.garble \in {"header", "emptySegment"} THEN JwtError("JsonWebTokenError", "invalid token")
    ELSE IF t.garble = "payload" THEN JwtError("SyntaxError", "Unexpected token in JSON")
    ELSE IF clock >= t.payload.exp THEN JwtError("TokenExpiredError", "jwt expired")
    ELSE IF t.sig # Hmac(s, t.payload) THEN JwtError("JsonWebTokenError", "invalid signature")
    ELSE JwtDecoded

\* jsonwebtoken's verify with algorithms [HS256]: structure, then decoding, then
\* the signature, then the expiry
jwt_verify(t, s, clock) ==
    IF t.segs # 3 THEN JwtError("JsonWebTokenError", "jwt malformed")
    ELSE IF t.garble \in {"header", "emptySegment"} THEN JwtError("JsonWebTokenError", "invalid token")
    ELSE IF t.garble = "payload" THEN JwtError("SyntaxError", "Unexpected token in JSON")
    ELSE IF t.sig # Hmac(s, t.payload) THEN JwtError("JsonWebTokenError", "invalid signature")
    ELSE IF clock >= t.payload.exp THEN JwtError("TokenExpiredError", "jwt expired")
    ELSE JwtDecoded

\* verifyJWT that reports every JsonWebTokenError as an invalid token
verifyJWT_NoMessageTest(t, s, clock) ==
    IF ~getJWTSecret(s).ok THEN getJWTSecret(s)
    ELSE IF t.empty \/ t.segs # 3 THEN Err(TOKEN_MALFORMED)
    ELSE LET r == jwt_verify(t, s, clock) IN
         IF r.failed THEN
            IF r.name = "TokenExpiredError" THEN Err(TOKEN_EXPIRED)
            ELSE IF r.name = "JsonWebTokenError" THEN Err(TOKEN_INVALID)
            ELSE Err(TOKEN_MALFORMED)
         ELSE Ok(t.payload)

\* what the promise returned by verifyJWT settles to
verifyJWT(t, s, clock) ==
    IF ~getJWTSecret(s).ok THEN getJWTSecret(s)
    ELSE IF t.empty \/ t.segs # 3 THEN Err(TOKEN_MALFORMED)
    ELSE LET r == jwt_verify(t, s, clock) IN
         IF r.failed THEN
            IF r.name = "TokenExpiredError" THEN Err(TOKEN_EXPIRED)
            ELSE IF r.name = "JsonWebTokenError" THEN
                 IF r.message \in {"jwt malformed", "invalid token"}
                 THEN Err(TOKEN_MALFORMED)
                 ELSE Err(TOKEN_INVALID)
            ELSE Err(TOKEN_MALFORMED)
         ELSE Ok(t.payload)

\* decodeJWT: the payload without any check of signature, secret or expiry
decodeJWT(t) ==
    IF t.empty \/ t.segs # 3 \/ t.garble # "none" THEN Err("null") ELSE Ok(t.payload)

(***************************************************************************)
(* JavaScript values at the call sites that use verifyJWT's result         *)
(***************************************************************************)
Undefined == [defined |-> FALSE, val |-> "none"]
Val(x) == [defined |-> TRUE, val |-> x]
\* === on two property values
StrictEq(a, b) == a.defined = b.defined /\ (a.defined => a.val = b.val)

\* a call of an async function without await: the Promise object itself
PromiseOf(r) == [promise |-> TRUE, settles |-> r]
\* the same call under await: the settled value, or the rejection thrown
Awaited(r) == [promise |-> FALSE, settles |-> r]
\* whether evaluating the expression throws: only an awaited rejection does
Throws(obj) == ~obj.promise /\ ~obj.settles.ok
\* obj.userId / obj.email: a Promise has no such property
GetProp(obj, f) == IF obj.promise THEN Undefined ELSE Val(obj.settles.value[f])

(***************************************************************************)
(* Token Store (client side, js-cookie)                                    *)
(***************************************************************************)
\* Cookies.set(..., {expires: TOKEN_EXPIRY_DAYS}) with TOKEN_EXPIRY_DAYS = 1
COOKIE_SECONDS == 86400

TOKEN_KEY == "auth-token"
STORE_FAILED == "Failed to store authentication token"

\* process.env.NODE_ENV of the running build
NodeEnvs == {"development", "production", "test"}

StoredUser(uid, em) == [userId |-> uid, email |-> em]

\* the attributes of a cookie: lifetime in seconds, secure, sameSite, path
CookieAttributes(expires, secure, sameSite, path) == [expires |-> expires, secure |-> secure, sameSite |-> sameSite, path |-> path]
NoAttributes == CookieAttributes(0, FALSE, "none", "none")

\* JSON.stringify({token, user}): a text that parses back to the same fields
JsonBundle(t, u) == [parses |-> TRUE, shape |-> "ok", token |-> t, user |-> u]

\* edits counts the manual edits since the cookie was written (model bookkeeping)
NoCookie == [present |-> FALSE, name |-> TOKEN_KEY, text |-> JsonBundle(EmptyToken, StoredUser("", BlankEmail)), attrs |-> NoAttributes, expiresAt |-> 0, edits |-> 0]

\* Cookies.get('auth-token'): the browser no longer returns a cookie past its expiry
CookiesGet(c, clock) == c.present /\ clock < c.expiresAt

\* Cookies.set(name, value, attributes): the cookie the browser keeps
CookiesSet(name, text, attrs, clock) == [present |-> TRUE, name |-> name, text |-> text, attrs |-> attrs, expiresAt |-> clock + attrs.expires, edits |-> 0]

Stored(c) == [cookie |-> c, thrown |-> FALSE, message |-> "none"]
StoreThrew(c, m) == [cookie |-> c, thrown |-> TRUE, message |-> m]

\* storeToken whose secure flag is on in every environment but development
storeToken_SecureUnlessDevelopment(t, u, c, clock, env, setThrows) ==
    IF setThrows THEN StoreThrew(c, STORE_FAILED)
    ELSE Stored(CookiesSet(TOKEN_KEY, JsonBundle(t, u), CookieAttributes(COOKIE_SECONDS, env # "development", "strict", "/"), clock))

\* storeToken(token, user) on the cookie jar c: Cookies.set of the serialized
\* bundle; setThrows says that Cookies.set throws
storeToken(t, u, c, clock, env, setThrows) ==
    IF setThrows THEN StoreThrew(c, STORE_FAILED)
    ELSE Stored(CookiesSet(TOKEN_KEY, JsonBundle(t, u), CookieAttributes(COOKIE_SECONDS, env = "production", "strict", "/"), clock))

Null == [isNull |-> TRUE, token |-> EmptyToken, user |-> StoredUser("", BlankEmail)]
Bundle(t, u) == [isNull |-> FALSE, token |-> t, user |-> u]
Kept(r) == [result |-> r, cleared |-> FALSE]
Cleared == [result |-> Null, cleared |-> TRUE]

\* the shape test of getStoredToken: token and user.userId and user.email are
\* non-empty strings
ShapeOk(x) ==
    /\ x.shape = "ok"
    /\ ~x.token.empty
    /\ x.user.userId # ""
    /\ x.user.email.name # ""

\* the value of the expression verifyJWT(tokenData.token) in getStoredToken
StoreVerifyCall(t, s, clock) == PromiseOf(verifyJWT(t, s, clock))

\* getStoredToken without the comparison of the payload with the stored user
getStoredToken_NoCompare(c, s, clock) ==
    IF ~CookiesGet(c, clock) THEN Kept(Null)
    ELSE IF ~c.text.parses THEN Cleared
    ELSE IF ~ShapeOk(c.text) THEN Cleared
    ELSE IF Throws(StoreVerifyCall(c.text.token, s, clock)) THEN Cleared
    ELSE Kept(Bundle(c.text.token, c.text.user))

\* getStoredToken whose JSON.parse failure returns null without clearToken
getStoredToken_NoClearOnParse(c, s, clock) ==
    IF ~CookiesGet(c, clock) THEN Kept(Null)
    ELSE IF ~c.text.parses THEN Kept(Null)
    ELSE Cleared

\* getStoredToken: the bundle returned (or null) and whether clearToken ran
getStoredToken(c, s, clock) ==
    IF ~CookiesGet(c, clock) THEN Kept(Null)
    ELSE IF ~c.text.parses THEN Cleared
    ELSE IF ~ShapeOk(c.text) THEN Cleared
    ELSE LET payload == StoreVerifyCall(c.text.token, s, clock) IN
         IF Throws(payload) THEN Cleared
         ELSE IF \/ ~StrictEq(GetProp(payload, "userId"), Val(c.text.user.userId))
            \/ ~StrictEq(GetProp(payload, "email"), Val(c.text.user.email))
         THEN Cleared
         ELSE Kept(Bundle(c.text.token, c.text.user))

\* clearToken: Cookies.remove
clearToken(c) == NoCookie

\* the cookie jar after getStoredToken
AfterRead(c, s, clock) == IF getStoredToken(c, s, clock).cleared THEN clearToken(c) ELSE c

isAuthenticated(c, s, clock) == ~getStoredToken(c, s, clock).result.isNull
getAuthToken(c, s, clock) == getStoredToken(c, s, clock).result
getCurrentUser(c, s, clock) == getStoredToken(c, s, clock).result

(***************************************************************************)
(* Client auth store (contexts/auth-context.tsx)                           *)
(***************************************************************************)
\* the user held by the store; isNull stands for null
NoStoreUser == [isNull |-> TRUE, id |-> "", email |-> BlankEmail]
ClientUser(id, em) == [isNull |-> FALSE, id |-> id, email |-> em]

AuthState(a, u, l) == [isAuthenticated |-> a, user |-> u, isLoading |-> l]
\* the state the store is created with
InitialAuthState == AuthState(FALSE, NoStoreUser, TRUE)

TYPE_ERROR == "Cannot read properties of null"

Returned(st, c) == [store |-> st, cookie |-> c, thrown |-> FALSE, message |-> "none"]
Rethrown(st, c, m) == [store |-> st, cookie |-> c, thrown |-> TRUE, message |-> m]

\* login that marks the store authenticated although storing failed
authLogin_MarksAnyway(token, user, c, clock, env, setThrows) ==
    IF user.isNull THEN Rethrown(AuthState(FALSE, NoStoreUser, FALSE), c, TYPE_ERROR)
    ELSE LET w == storeToken(token, StoredUser(user.id, user.email), c, clock, env, setThrows) IN
         IF w.thrown THEN Rethrown(AuthState(TRUE, user, FALSE), w.cookie, w.message)
         ELSE Returned(AuthState(TRUE, user, FALSE), w.cookie)

\* useAuthStore.login(token, user); reading user.id of a null user throws
\* inside the try block
authLogin(token, user, c, clock, env, setThrows) ==
    IF user.isNull THEN Rethrown(AuthState(FALSE, NoStoreUser, FALSE), c, TYPE_ERROR)
    ELSE LET w == storeToken(token, StoredUser(user.id, user.email), c, clock, env, setThrows) IN
         IF w.thrown THEN Rethrown(AuthState(FALSE, NoStoreUser, FALSE), w.cookie, w.message)
         ELSE Returned(AuthState(TRUE, user, FALSE), w.cookie)

\* useAuthStore.logout()
authLogout(c) == Returned(AuthState(FALSE, NoStoreUser, FALSE), clearToken(c))

\* initialize whose failure branch leaves the store loading
initialize_StillLoading(c, s, clock, readThrows) ==
    IF readThrows THEN Returned(AuthState(FALSE, NoStoreUser, TRUE), clearToken(c))
    ELSE LET currentUser == getCurrentUser(c, s, clock)
             c1 == AfterRead(c, s, clock)
             authenticated == isAuthenticated(c1, s, clock)
             c2 == AfterRead(c1, s, clock)
         IN IF authenticated /\ ~currentUser.isNull
            THEN Returned(AuthState(TRUE, ClientUser(currentUser.user.userId, currentUser.user.email), FALSE), c2)
            ELSE Returned(AuthState(FALSE, NoStoreUser, FALSE), c2)

\* useAuthStore.initialize(): getCurrentUser(), then isAuthenticated() on the
\* jar the first read left; readThrows says that a read throws
initialize(c, s, clock, readThrows) ==
    IF readThrows THEN Returned(AuthState(FALSE, NoStoreUser, FALSE), clearToken(c))
    ELSE LET currentUser == getCurrentUser(c, s, clock)
             c1 == AfterRead(c, s, clock)
             authenticated == isAuthenticated(c1, s, clock)
             c2 == AfterRead(c1, s, clock)
         IN IF authenticated /\ ~currentUser.isNull
            THEN Returned(AuthState(TRUE, ClientUser(currentUser.user.userId, currentUser.user.email), FALSE), c2)
            ELSE Returned(AuthState(FALSE, NoStoreUser, FALSE), c2)

\* useAuthStore.setLoading(loading)
setLoading(st, loading) == [st EXCEPT !.isLoading = loading]

(***************************************************************************)
(* Password Hasher                                                         *)
(***************************************************************************)
Pw(id, n, lo, up, dg, sp, bl) ==
    [id |-> id, len |-> n, lower |-> lo, upper |-> up, digit |-> dg, special |-> sp, blank |-> bl]

Strong1 == Pw("Strong1!", 8, TRUE, TRUE, TRUE, TRUE, FALSE)
Strong2 == Pw("Other2@x", 8, TRUE, TRUE, TRUE, TRUE, FALSE)
StrongPasswords == {Strong1, Strong2}
\* passwords a caller may send: strong ones, a short one, one without upper
\* case and special character, the empty one, eight blanks, an overlong one
Passwords ==
    StrongPasswords \cup
    {Pw("Weak1!", 6, TRUE, TRUE, TRUE, TRUE, FALSE),
     Pw("password1", 9, TRUE, FALSE, TRUE, FALSE, FALSE),
     Pw("", 0, FALSE, FALSE, FALSE, FALSE, TRUE),
     Pw("        ", 8, FALSE, FALSE, FALSE, FALSE, TRUE),
     Pw("LongLong1!x129", 129, TRUE, TRUE, TRUE, TRUE, FALSE)}

\* bcrypt salts
Salts == {"s1", "s2"}

\* bcrypt.hash(password, SALT_ROUNDS) with the salt drawn for this call
Digest(p, salt) == [pw |-> p.id, salt |-> salt]

\* PasswordUtils.hash
hash(p, salt) == IF p.blank THEN Err("Password is required") ELSE Ok(Digest(p, salt))

\* PasswordUtils.verify
verify(p, h) == IF p.len = 0 THEN FALSE ELSE h.pw = p.id

ErrorsIf(c, m) == IF c THEN <<m>> ELSE <<>>

\* validatePasswordStrength that returns at the first violated rule
validatePasswordStrength_FirstOnly(p) ==
    IF p.blank THEN [isValid |-> FALSE, errors |-> <<"Password is required">>]
    ELSE IF p.len < MIN_LENGTH THEN [isValid |-> FALSE, errors |-> <<"Password must be at least 8 characters long">>]
    ELSE IF p.len > MAX_LENGTH THEN [isValid |-> FALSE, errors |-> <<"Password must be less than 128 characters long">>]
    ELSE IF ~p.lower THEN [isValid |-> FALSE, errors |-> <<"Password must contain at least one lowercase letter">>]
    ELSE IF ~p.upper THEN [isValid |-> FALSE, errors |-> <<"Password must contain at least one uppercase letter">>]
    ELSE IF ~p.digit THEN [isValid |-> FALSE, errors |-> <<"Password must contain at least one number">>]
    ELSE IF ~p.special THEN [isValid |-> FALSE, errors |-> <<"Password must contain at least one special character">>]
    ELSE [isValid |-> TRUE, errors |-> <<>>]

\* PasswordUtils.validatePasswordStrength
validatePasswordStrength(p) ==
    IF p.blank THEN [isValid |-> FALSE, errors |-> <<"Password is required">>]
    ELSE LET errors ==
               ErrorsIf(p.len < MIN_LENGTH, "Password must be at least 8 characters long")
               \o ErrorsIf(p.len > MAX_LENGTH, "Password must be less than 128 characters long")
               \o ErrorsIf(~p.lower, "Password must contain at least one lowercase letter")
               \o ErrorsIf(~p.upper, "Password must contain at least one uppercase letter")
               \o ErrorsIf(~p.digit, "Password must contain at least one number")
               \o ErrorsIf(~p.special, "Password must contain at least one special character")
         IN [isValid |-> Len(errors) = 0, errors |-> errors]

(***************************************************************************)
(* User repository (Prisma)                                                *)
(***************************************************************************)
User(id, em, h) == [id |-> id, email |-> em, passwordHash |-> h]
NoUser == [id |-> "", email |-> BlankEmail]
\* a user record handed out as stored
Sanitized_KeepsHash(u) == u

\* a user record without its passwordHash
Sanitized(u) == [id |-> u.id, email |-> u.email]

IdOf(n) == CASE n = 1 -> "u1" [] n = 2 -> "u2" [] n = 3 -> "u3" [] OTHER -> "u4"

\* UserRepository.isValidEmail: /^[^\s@]+@[^\s@]+\.[^\s@]+$/
isValidEmail(e) == e.fmt /\ ~e.pad

HasEmail(us, e) == \E u \in us : u.email = e
ByEmail(us, e) == CHOOSE u \in us : u.email = e
HasId(us, id) == \E u \in us : u.id = id
ById(us, id) == CHOOSE u \in us : u.id = id

\* how the database answers during one request
DbStates == {"up", "findFails", "createFails"}
\* what throws during one request: a repository call, bcrypt.hash, or
\* bcrypt.compare
Faults == DbStates \cup {"hashFails", "verifyFails"}

(***************************************************************************)
(* Auth router                                                             *)
(***************************************************************************)
USER_EXISTS == "User with this email already exists"
INVALID_CREDENTIALS == "Invalid email or password"

\* what a procedure call gives its caller, the repository after it, and the
\* collaborator calls the handler made
Reply(code, message, calls, us, t, u) ==
    [code |-> code, message |-> message, calls |-> calls, users |-> us, token |-> t, user |-> u]

\* authRouter.register that hashes the password before the lookup
register_HashFirst(raw, p, us, db, salt, id) ==
    IF ~Trim(raw).fmt THEN Reply("BAD_REQUEST", "Invalid email format", <<>>, us, EmptyToken, NoUser)
    ELSE IF ~validatePasswordStrength(p).isValid \/ p.len < MIN_LENGTH \/ p.len > MAX_LENGTH
    THEN Reply("BAD_REQUEST", "Password does not meet strength requirements", <<>>, us, EmptyToken, NoUser)
    ELSE IF HasEmail(us, ToLowerCase(Trim(raw)))
    THEN Reply("CONFLICT", USER_EXISTS, <<"hash", "findByEmail">>, us, EmptyToken, NoUser)
    ELSE Reply("OK", "User registered successfully", <<"hash", "findByEmail", "create">>,
               us \cup {User(id, ToLowerCase(Trim(raw)), Digest(p, salt))}, EmptyToken,
               Sanitized(User(id, ToLowerCase(Trim(raw)), Digest(p, salt))))

\* authRouter.register that looks the e-mail up before it checks the password
register_LookupFirst(raw, p, us, db, salt, id) ==
    IF ~Trim(raw).fmt THEN Reply("BAD_REQUEST", "Invalid email format", <<>>, us, EmptyToken, NoUser)
    ELSE IF HasEmail(us, ToLowerCase(Trim(raw)))
    THEN Reply("CONFLICT", USER_EXISTS, <<"findByEmail">>, us, EmptyToken, NoUser)
    ELSE IF ~validatePasswordStrength(p).isValid \/ p.len < MIN_LENGTH \/ p.len > MAX_LENGTH
    THEN Reply("BAD_REQUEST", "Password does not meet strength requirements", <<"findByEmail">>, us, EmptyToken, NoUser)
    ELSE Reply("OK", "User registered successfully", <<"findByEmail", "hash", "create">>,
               us \cup {User(id, ToLowerCase(Trim(raw)), Digest(p, salt))}, EmptyToken,
               Sanitized(User(id, ToLowerCase(Trim(raw)), Digest(p, salt))))

\* authRouter.register: the input schema, then the mutation
register(raw, p, us, db, salt, id) ==
    LET trimmed == Trim(raw)
        email == ToLowerCase(trimmed)
        passwordValidation == validatePasswordStrength(p)
        newUser == User(id, email, Digest(p, salt))
    IN
    IF ~trimmed.fmt THEN Reply("BAD_REQUEST", "Invalid email format", <<>>, us, EmptyToken, NoUser)
    ELSE IF p.len < MIN_LENGTH
    THEN Reply("BAD_REQUEST", "Password must be at least 8 characters long", <<>>, us, EmptyToken, NoUser)
    ELSE IF p.len > MAX_LENGTH
    THEN Reply("BAD_REQUEST", "Password must be less than 128 characters long", <<>>, us, EmptyToken, NoUser)
    ELSE IF ~passwordValidation.isValid
    THEN Reply("BAD_REQUEST", "Password does not meet strength requirements", <<>>, us, EmptyToken, NoUser)
    ELSE IF db = "findFails" \/ ~isValidEmail(email)
    THEN Reply("INTERNAL_SERVER_ERROR", "An unexpected error occurred during registration",
               <<"findByEmail">>, us, EmptyToken, NoUser)
    ELSE IF HasEmail(us, email)
    THEN Reply("CONFLICT", USER_EXISTS, <<"findByEmail">>, us, EmptyToken, NoUser)
    ELSE IF ~hash(p, salt).ok \/ db = "hashFails"
    THEN Reply("INTERNAL_SERVER_ERROR", "An unexpected error occurred during registration",
               <<"findByEmail", "hash">>, us, EmptyToken, NoUser)
    ELSE IF db = "createFails"
    THEN Reply("INTERNAL_SERVER_ERROR", "An unexpected error occurred during registration",
               <<"findByEmail", "hash", "create">>, us, EmptyToken, NoUser)
    ELSE Reply("OK", "User registered successfully", <<"findByEmail", "hash", "create">>,
               us \cup {newUser}, EmptyToken, Sanitized(newUser))

\* authRouter.login that tells an unknown e-mail from a wrong password
login_TellsUnknown(raw, p, us, db, s, clock) ==
    IF ~Trim(raw).fmt THEN Reply("BAD_REQUEST", "Invalid email format", <<>>, us, EmptyToken, NoUser)
    ELSE IF p.len < 1 THEN Reply("BAD_REQUEST", "Password is required", <<>>, us, EmptyToken, NoUser)
    ELSE IF ~HasEmail(us, ToLowerCase(Trim(raw)))
    THEN Reply("UNAUTHORIZED", "User not found", <<"findByEmail">>, us, EmptyToken, NoUser)
    ELSE Reply("UNAUTHORIZED", INVALID_CREDENTIALS, <<"findByEmail", "verify">>, us, EmptyToken, NoUser)

\* authRouter.login whose catch block passes the caught error's message on
login_PassesCause(raw, p, us, db, s, clock) ==
    LET trimmed == Trim(raw)
        email == ToLowerCase(trimmed)
    IN
    IF ~trimmed.fmt THEN Reply("BAD_REQUEST", "Invalid email format", <<>>, us, EmptyToken, NoUser)
    ELSE IF p.len < 1 THEN Reply("BAD_REQUEST", "Password is required", <<>>, us, EmptyToken, NoUser)
    ELSE IF db = "findFails" \/ ~isValidEmail(email)
    THEN Reply("INTERNAL_SERVER_ERROR", "Failed to find user by email",
               <<"findByEmail">>, us, EmptyToken, NoUser)
    ELSE IF ~HasEmail(us, email)
    THEN Reply("UNAUTHORIZED", INVALID_CREDENTIALS, <<"findByEmail">>, us, EmptyToken, NoUser)
    ELSE LET user == ByEmail(us, email)
             signed == signJWT(SignInput(user.id, user.email), s, clock)
         IN IF db = "verifyFails"
            THEN Reply("INTERNAL_SERVER_ERROR", "bcrypt.compare failed",
                       <<"findByEmail", "verify">>, us, EmptyToken, NoUser)
            ELSE IF ~verify(p, user.passwordHash)
            THEN Reply("UNAUTHORIZED", INVALID_CREDENTIALS, <<"findByEmail", "verify">>, us, EmptyToken, NoUser)
            ELSE IF ~signed.ok
            THEN Reply("INTERNAL_SERVER_ERROR", signed.error,
                       <<"findByEmail", "verify", "signJWT">>, us, EmptyToken, NoUser)
            ELSE Reply("OK", "Login successful", <<"findByEmail", "verify", "signJWT">>, us,
                       signed.value, Sanitized(user))

\* authRouter.login: the input schema, then the mutation
login(raw, p, us, db, s, clock) ==
    LET trimmed == Trim(raw)
        email == ToLowerCase(trimmed)
    IN
    IF ~trimmed.fmt THEN Reply("BAD_REQUEST", "Invalid email format", <<>>, us, EmptyToken, NoUser)
    ELSE IF p.len < 1 THEN Reply("BAD_REQUEST", "Password is required", <<>>, us, EmptyToken, NoUser)
    ELSE IF db = "findFails" \/ ~isValidEmail(email)
    THEN Reply("INTERNAL_SERVER_ERROR", "An unexpected error occurred during login",
               <<"findByEmail">>, us, EmptyToken, NoUser)
    ELSE IF ~HasEmail(us, email)
    THEN Reply("UNAUTHORIZED", INVALID_CREDENTIALS, <<"findByEmail">>, us, EmptyToken, NoUser)
    ELSE LET user == ByEmail(us, email)
             signed == signJWT(SignInput(user.id, user.email), s, clock)
         IN IF db = "verifyFails"
            THEN Reply("INTERNAL_SERVER_ERROR", "An unexpected error occurred during login",
                       <<"findByEmail", "verify">>, us, EmptyToken, NoUser)
            ELSE IF ~verify(p, user.passwordHash)
            THEN Reply("UNAUTHORIZED", INVALID_CREDENTIALS, <<"findByEmail", "verify">>, us, EmptyToken, NoUser)
            ELSE IF ~signed.ok
            THEN Reply("INTERNAL_SERVER_ERROR", "An unexpected error occurred during login",
                       <<"findByEmail", "verify", "signJWT">>, us, EmptyToken, NoUser)
            ELSE Reply("OK", "Login successful", <<"findByEmail", "verify", "signJWT">>, us,
                       signed.value, Sanitized(user))

(***************************************************************************)
(* Request Authenticator                                                   *)
(***************************************************************************)
\* the Authorization header: absent, 'Bearer ' + token, or the bare token
Header(kind, t) == [kind |-> kind, token |-> t]
NoHeader == Header("absent", EmptyToken)
Bearer(t) == Header("bearer", t)

NoAuth == [user |-> NoUser, userId |-> ""]
Authenticated(u) == [ok |-> TRUE, code |-> "OK", message |-> "none", auth |-> [user |-> Sanitized(u), userId |-> u.id]]
Unauthorized(m) == [ok |-> FALSE, code |-> "UNAUTHORIZED", message |-> m, auth |-> NoAuth]

\* String.prototype.includes on the messages verifyJWT rejects with
MessageIncludes(m, w) ==
    CASE w = "expired" -> m = TOKEN_EXPIRED
      [] w = "invalid" -> m = TOKEN_INVALID
      [] OTHER -> FALSE

\* the value of the expression verifyJWT(token) in authenticateUser
AuthVerifyCall(t, s, clock) == PromiseOf(verifyJWT(t, s, clock))

\* authenticateUser that trusts the verified token and never re-fetches the user
authenticateUser_NoRefetch(h, s, clock, us, db) ==
    IF h.kind = "absent" \/ h.token.empty THEN Unauthorized("Authorization header is required")
    ELSE IF ~verifyJWT(h.token, s, clock).ok THEN Unauthorized("Authentication failed")
    ELSE Authenticated(User(h.token.payload.userId, h.token.payload.email, Digest(Strong1, "s1")))

\* authenticateUser
authenticateUser(h, s, clock, us, db) ==
    IF h.kind = "absent" \/ (h.kind = "bare" /\ h.token.empty)
    THEN Unauthorized("Authorization header is required")
    ELSE IF h.token.empty
    THEN Unauthorized("Invalid authorization format. Expected: Bearer <token>")
    ELSE LET payload == AuthVerifyCall(h.token, s, clock)
             userId == GetProp(payload, "userId")
             email == GetProp(payload, "email")
         IN
         IF Throws(payload) THEN
            IF MessageIncludes(payload.settles.error, "expired") THEN Unauthorized("Token has expired")
            ELSE IF MessageIncludes(payload.settles.error, "invalid") THEN Unauthorized("Invalid token")
            ELSE Unauthorized("Authentication failed")
         ELSE IF (~userId.defined \/ userId.val = "") \/ (~email.defined \/ email.val.name = "")
         THEN Unauthorized("Invalid token payload")
         ELSE IF db = "findFails" THEN Unauthorized("Authentication failed")
         ELSE IF ~HasId(us, userId.val) THEN Unauthorized("User not found or account deactivated")
         ELSE IF ById(us, userId.val).email # email.val
         THEN Unauthorized("Token payload does not match user data")
         ELSE Authenticated(ById(us, userId.val))

(***************************************************************************)
(* tRPC procedure builders and the user router                             *)
(***************************************************************************)
Procedures == {"getProfile", "updateProfile", "deleteAccount", "getStats", "testAuth"}

\* createTRPCContext: the request and response, no auth
createTRPCContext == [hasAuth |-> FALSE, auth |-> NoAuth]

\* protectedProcedure's middleware: next({ ctx })
protectedProcedure(ctx, h, s, clock, us, db) == [passed |-> TRUE, ctx |-> ctx, code |-> "OK", message |-> "none"]

Ran(code, message, us) == [bodyEntered |-> TRUE, code |-> code, message |-> message, users |-> us]
NotRun(code, message, us) == [bodyEntered |-> FALSE, code |-> code, message |-> message, users |-> us]
\* a procedure call's outcome with whether its context carried ctx.auth
WithAuthFlag(r, ctx) ==
    [bodyEntered |-> r.bodyEntered, code |-> r.code, message |-> r.message, users |-> r.users,
     hasAuth |-> ctx.hasAuth]

\* the resolver of a userRouter procedure, run with context ctx
resolver(proc, ctx, input, us, db) ==
    IF ~ctx.hasAuth
    THEN Ran("INTERNAL_SERVER_ERROR", "Cannot destructure property of 'ctx.auth' as it is undefined", us)
    ELSE IF proc = "updateProfile" THEN
        IF db = "findFails" \/ ~isValidEmail(input)
        THEN Ran("INTERNAL_SERVER_ERROR", "Failed to update profile", us)
        ELSE IF HasEmail(us, input) /\ ByEmail(us, input).id # ctx.auth.userId
        THEN Ran("CONFLICT", "Email address is already in use", us)
        ELSE IF ~HasId(us, ctx.auth.userId)
        THEN Ran("INTERNAL_SERVER_ERROR", "Failed to update profile", us)
        ELSE Ran("OK", "Profile updated successfully",
                 {IF u.id = ctx.auth.userId THEN [u EXCEPT !.email = input] ELSE u : u \in us})
    ELSE IF proc = "deleteAccount" THEN
        IF db = "findFails" \/ ~HasId(us, ctx.auth.userId)
        THEN Ran("INTERNAL_SERVER_ERROR", "Failed to delete account", us)
        ELSE Ran("OK", "Account deleted successfully", {u \in us : u.id # ctx.auth.userId})
    ELSE Ran("OK", "none", us)

\* one call of a userRouter procedure: the middleware, the input schema, the resolver
callProcedure(proc, h, input, s, clock, us, db) ==
    LET mw == protectedProcedure(createTRPCContext, h, s, clock, us, db) IN
    IF ~mw.passed THEN WithAuthFlag(NotRun(mw.code, mw.message, us), mw.ctx)
    ELSE IF proc = "updateProfile" /\ (~input.fmt \/ input.pad)
    THEN WithAuthFlag(NotRun("BAD_REQUEST", "Invalid email", us), mw.ctx)
    ELSE WithAuthFlag(resolver(proc, mw.ctx, input, us, db), mw.ctx)

(***************************************************************************)
(* Inputs                                                                  *)
(***************************************************************************)
Times == {k * TickSeconds : k \in 0..MaxTicks}
LowerEmails == {Email(n, FALSE, FALSE, TRUE) : n \in EmailNames}
OtherEmail(e) == [e EXCEPT !.name = IF e.name = "a" THEN "b" ELSE "a"]

\* tokens some server process signed at or before clock
SignedTokens(clock) ==
    {jwt_sign(SignInput(u, e), k, t) : u \in {"u1", "u2"}, e \in LowerEmails,
                                       k \in Secrets \ {""}, t \in {x \in Times : x <= clock}}

\* a token as a client may present it: as issued, with another signature, with
\* the e-mail claim rewritten, with a segment that does not decode, or cut
Variants(t) ==
    {t,
     [t EXCEPT !.sig = Hmac("forged", t.payload)],
     [t EXCEPT !.payload.email = OtherEmail(t.payload.email)],
     [t EXCEPT !.garble = "header"],
     [t EXCEPT !.garble = "payload"],
     [t EXCEPT !.segs = 2]}

\* the register requests in flight: none
NoFlight == <<>>

Idle == [op |-> "idle"]

\* the environment: the clock advances
Tick ==
    /\ now + TickSeconds <= MaxTicks * TickSeconds
    /\ now' = now + TickSeconds
    /\ last' = Idle
    /\ UNCHANGED <<store, flight, secret, users, nextId, tok, cookie>>

\* the environment: the process is started with another JWT_SECRET
SetSecret(s) ==
    /\ s # secret
    /\ secret' = s
    /\ last' = Idle
    /\ UNCHANGED <<store, flight, now, users, nextId, tok, cookie>>

(***************************************************************************)
(* Token Store operations                                                  *)
(***************************************************************************)
StoreUsers == {StoredUser(u, e) : u \in {"u1", "u2"}, e \in LowerEmails}

\* the token some server process issued to user u at or before clock
TokensFor(u, clock) ==
    {jwt_sign(SignInput(u.userId, u.email), k, t) : k \in Secrets \ {""}, t \in {x \in Times : x <= clock}}

\* storeToken(token, user)
StoreToken(t, u, env, setThrows) ==
    /\ LET r == storeToken(t, u, cookie, now, env, setThrows) IN
         /\ cookie' = r.cookie
         /\ last' = [op |-> "storeToken", result |-> Bundle(t, u), env |-> env, thrown |-> r.thrown, message |-> r.message]
    /\ UNCHANGED <<store, flight, secret, now, users, nextId, tok>>

ReadOps == {"getStoredToken", "isAuthenticated", "getCurrentUser", "getAuthToken"}

\* getStoredToken and the three readers built on it
ReadStore(op) ==
    /\ cookie' = AfterRead(cookie, secret, now)
    /\ last' = [op |-> op, before |-> cookie, result |-> getStoredToken(cookie, secret, now).result]
    /\ UNCHANGED <<store, flight, secret, now, users, nextId, tok>>

ClearToken ==
    /\ cookie' = clearToken(cookie)
    /\ last' = [op |-> "clearToken", result |-> Null]
    /\ UNCHANGED <<store, flight, secret, now, users, nextId, tok>>

\* the texts one manual edit of the cookie text x can leave
Edits(x) ==
    {[x EXCEPT !.parses = FALSE],
     [x EXCEPT !.shape = "missing"],
     [x EXCEPT !.user.email = OtherEmail(x.user.email)],
     [x EXCEPT !.user.userId = IF x.user.userId = "u1" THEN "u2" ELSE "u1"]}
    \cup {[x EXCEPT !.token = v] : v \in Variants(x.token) \ {x.token}}

\* the environment: the cookie text is edited by hand in the browser
EditCookie ==
    /\ cookie.present
    /\ cookie.edits < MaxEdits
    /\ \E x \in Edits(cookie.text) : cookie' = [cookie EXCEPT !.text = x, !.edits = @ + 1]
    /\ last' = Idle
    /\ UNCHANGED <<store, flight, secret, now, users, nextId, tok>>

InitStore ==
    /\ secret \in Secrets
    /\ now = 0
    /\ users = {}
    /\ nextId = 1
    /\ tok = EmptyToken
    /\ cookie = NoCookie
    /\ store = InitialAuthState
    /\ flight = NoFlight
    /\ last = Idle

NextStore ==
    \/ \E u \in StoreUsers : \E t \in TokensFor(u, now) : StoreToken(t, u, "production", FALSE)
    \/ \E op \in ReadOps : ReadStore(op)
    \/ ClearToken
    \/ EditCookie
    \/ Tick
    \/ \E s \in Secrets : SetSecret(s)

SpecStore == InitStore /\ [][NextStore]_vars

(***************************************************************************)
(* Password Hasher operations                                              *)
(***************************************************************************)
\* lengths around the two limits, and the empty and one-character texts
PasswordLengths == {0, 1, MIN_LENGTH - 1, MIN_LENGTH, MAX_LENGTH, MAX_LENGTH + 1}

\* how many of the four character classes a text has
Classes(lo, up, dg, sp) ==
    (IF lo THEN 1 ELSE 0) + (IF up THEN 1 ELSE 0) + (IF dg THEN 1 ELSE 0) + (IF sp THEN 1 ELSE 0)

\* the texts a caller may pass: a blank text (empty or white space only) has
\* no character of any class, and a text has at most as many classes as characters
PasswordTexts ==
    {Pw(<<n, lo, up, dg, sp, bl>>, n, lo, up, dg, sp, bl) :
       n \in PasswordLengths, lo \in BOOLEAN, up \in BOOLEAN, dg \in BOOLEAN, sp \in BOOLEAN, bl \in BOOLEAN}

PasswordInputs ==
    {p \in PasswordTexts :
       /\ p.len = 0 => p.blank
       /\ p.blank => Classes(p.lower, p.upper, p.digit, p.special) = 0
       /\ Classes(p.lower, p.upper, p.digit, p.special) <= p.len}

\* PasswordUtils.validatePasswordStrength(password)
ValidatePassword(p) ==
    /\ last' = [op |-> "validatePasswordStrength", password |-> p, result |-> validatePasswordStrength(p)]
    /\ UNCHANGED <<store, flight, secret, now, users, nextId, tok, cookie>>

\* PasswordUtils.hash(password)
HashPassword(p, salt) ==
    /\ last' = [op |-> "hash", password |-> p, result |-> hash(p, salt)]
    /\ UNCHANGED <<store, flight, secret, now, users, nextId, tok, cookie>>

\* PasswordUtils.verify(password, hash) against the digest of q
VerifyPassword(p, q, salt) ==
    /\ hash(q, salt).ok
    /\ last' = [op |-> "verify", password |-> p, hashed |-> q, result |-> verify(p, hash(q, salt).value)]
    /\ UNCHANGED <<store, flight, secret, now, users, nextId, tok, cookie>>

InitPassword ==
    /\ secret = "k1"
    /\ now = 0
    /\ users = {}
    /\ nextId = 1
    /\ tok = EmptyToken
    /\ cookie = NoCookie
    /\ store = InitialAuthState
    /\ flight = NoFlight
    /\ last = Idle

NextPassword ==
    \/ \E p \in PasswordInputs : ValidatePassword(p)
    \/ \E p \in PasswordInputs, salt \in Salts : HashPassword(p, salt)
    \/ \E p \in PasswordInputs, q \in {x \in PasswordInputs : x.len = MIN_LENGTH} : VerifyPassword(p, q, "s1")

SpecPassword == InitPassword /\ [][NextPassword]_vars

(***************************************************************************)
(* Client auth store operations                                            *)
(***************************************************************************)
\* the users a caller passes to login, null included
ClientUsers == {ClientUser("u1", Email("a", FALSE, FALSE, TRUE)), ClientUser("u2", Email("b", FALSE, FALSE, TRUE)), NoStoreUser}

\* the token the server issues now to the user (id, em)
IssuedTokens(id, em, clock) == {jwt_sign(SignInput(id, em), k, clock) : k \in Secrets \ {""}}

\* useAuthStore.login(token, user)
AuthLogin(t, user, env, setThrows) ==
    /\ LET r == authLogin(t, user, cookie, now, env, setThrows) IN
         /\ cookie' = r.cookie
         /\ store' = r.store
         /\ last' = [op |-> "login", user |-> user, env |-> env, stored |-> ~user.isNull /\ ~setThrows,
                     thrown |-> r.thrown, message |-> r.message]
    /\ UNCHANGED <<flight, secret, now, users, nextId, tok>>

\* useAuthStore.logout()
AuthLogout ==
    /\ cookie' = authLogout(cookie).cookie
    /\ store' = authLogout(cookie).store
    /\ last' = [op |-> "logout", thrown |-> FALSE]
    /\ UNCHANGED <<flight, secret, now, users, nextId, tok>>

\* useAuthStore.initialize()
Initialize(readThrows) ==
    /\ LET r == initialize(cookie, secret, now, readThrows) IN
         /\ cookie' = r.cookie
         /\ store' = r.store
         /\ last' = [op |-> "initialize", thrown |-> readThrows]
    /\ UNCHANGED <<flight, secret, now, users, nextId, tok>>

\* useAuthStore.setLoading(loading)
SetLoading(loading) ==
    /\ store' = setLoading(store, loading)
    /\ last' = [op |-> "setLoading", thrown |-> FALSE]
    /\ UNCHANGED <<flight, secret, now, users, nextId, tok, cookie>>

\* a Token Store read made outside the auth store: getAuthToken for the
\* request headers of the tRPC client, isAuthenticated, getCurrentUser
ClientRead(op) ==
    /\ cookie' = AfterRead(cookie, secret, now)
    /\ last' = [op |-> op, thrown |-> FALSE, purged |-> getStoredToken(cookie, secret, now).cleared,
                isNull |-> getStoredToken(cookie, secret, now).result.isNull]
    /\ UNCHANGED <<store, flight, secret, now, users, nextId, tok>>

\* storeToken(token, user) in a build running under env
ClientStoreToken(t, u, env, setThrows) ==
    /\ LET r == storeToken(t, u, cookie, now, env, setThrows) IN
         /\ cookie' = r.cookie
         /\ last' = [op |-> "storeToken", env |-> env, thrown |-> r.thrown, message |-> r.message]
    /\ UNCHANGED <<store, flight, secret, now, users, nextId, tok>>

InitClient ==
    /\ secret \in Secrets
    /\ now = 0
    /\ users = {}
    /\ nextId = 1
    /\ tok = EmptyToken
    /\ cookie = NoCookie
    /\ store = InitialAuthState
    /\ flight = NoFlight
    /\ last = Idle

NextClient ==
    \/ \E user \in ClientUsers, env \in NodeEnvs, setThrows \in BOOLEAN :
         \E t \in IssuedTokens(user.id, user.email, now) : AuthLogin(t, user, env, setThrows)
    \/ AuthLogout
    \/ \E readThrows \in BOOLEAN : Initialize(readThrows)
    \/ \E loading \in BOOLEAN : SetLoading(loading)
    \/ \E op \in ReadOps \ {"getStoredToken"} : ClientRead(op)
    \/ \E user \in ClientUsers \ {NoStoreUser}, env \in NodeEnvs, setThrows \in BOOLEAN :
         \E t \in IssuedTokens(user.id, user.email, now) : ClientStoreToken(t, StoredUser(user.id, user.email), env, setThrows)
    \/ Tick

SpecClient == InitClient /\ [][NextClient]_vars

(***************************************************************************)
(* Token Codec operations, awaited as the codec's own callers do           *)
(***************************************************************************)
SignInputs ==
    {SignInput(u, e) : u \in {"u1", "u2"}, e \in LowerEmails}
    \cup {NotAnObject, SignInput("", Email("a", FALSE, FALSE, TRUE)), SignInput("u1", BlankEmail)}

\* await signJWT(p)
CodecSign(p) ==
    /\ last' = [op |-> "signJWT", input |-> p, result |-> signJWT(p, secret, now)]
    /\ tok' = IF signJWT(p, secret, now).ok THEN signJWT(p, secret, now).value ELSE tok
    /\ UNCHANGED <<store, flight, secret, now, users, nextId, cookie>>

\* await verifyJWT(t)
CodecVerify(t) ==
    /\ last' = [op |-> "verifyJWT", token |-> t, result |-> verifyJWT(t, secret, now)]
    /\ UNCHANGED <<store, flight, secret, now, users, nextId, tok, cookie>>

\* decodeJWT(t)
CodecDecode(t) ==
    /\ last' = [op |-> "decodeJWT", token |-> t, result |-> decodeJWT(t)]
    /\ UNCHANGED <<store, flight, secret, now, users, nextId, tok, cookie>>

\* the texts a caller may hand to the codec once tok was issued
Presented(t) == IF t.empty THEN {t} ELSE {EmptyToken} \cup UNION {Variants(v) : v \in Variants(t)}

InitCodec ==
    /\ secret \in Secrets
    /\ now = 0
    /\ users = {}
    /\ nextId = 1
    /\ tok = EmptyToken
    /\ cookie = NoCookie
    /\ store = InitialAuthState
    /\ flight = NoFlight
    /\ last = Idle

NextCodec ==
    \/ \E p \in SignInputs : CodecSign(p)
    \/ \E t \in Presented(tok) : CodecVerify(t)
    \/ \E t \in Presented(tok) : CodecDecode(t)
    \/ Tick
    \/ \E s \in Secrets : SetSecret(s)

SpecCodec == InitCodec /\ [][NextCodec]_vars

(***************************************************************************)
(* Server operations                                                       *)
(***************************************************************************)
\* e-mail texts sent to register and login: two plain ones, one in upper case
\* with surrounding blanks, one that is no e-mail address
AuthEmails ==
    LowerEmails \cup {Email("a", TRUE, TRUE, TRUE), Email("b", FALSE, FALSE, FALSE)}
\* passwords sent to register: all but the second strong one
RegisterPasswords == Passwords \ {Strong2}
\* passwords sent to login: the registered one, another one, the empty one
LoginPasswords == {Strong1, Strong2, Pw("", 0, FALSE, FALSE, FALSE, FALSE, TRUE)}
\* the secrets the server process is started with
AuthSecrets == {"", "k1"}

\* one call of authRouter.register
Register(raw, p, db, salt) ==
    /\ nextId <= MaxUsers
    /\ LET r == register(raw, p, users, db, salt, IdOf(nextId)) IN
         /\ users' = r.users
         /\ nextId' = IF r.code = "OK" THEN nextId + 1 ELSE nextId
         /\ last' = [op |-> "register", email |-> ToLowerCase(Trim(raw)),
                     code |-> r.code, message |-> r.message, calls |-> r.calls]
    /\ UNCHANGED <<store, flight, secret, now, tok, cookie>>

\* one call of authRouter.login; the client keeps the token it is given
Login(raw, p, db) ==
    /\ LET r == login(raw, p, users, db, secret, now) IN
         /\ tok' = IF r.code = "OK" THEN r.token ELSE tok
         /\ last' = [op |-> "login", email |-> ToLowerCase(Trim(raw)),
                     code |-> r.code, message |-> r.message, calls |-> r.calls]
    /\ UNCHANGED <<store, flight, secret, now, users, nextId, cookie>>

\* the headers a client holding token t may send
Headers(t) ==
    {NoHeader, Bearer(EmptyToken), Header("bare", EmptyToken)}
    \cup (IF t.empty THEN {} ELSE {Bearer(v) : v \in Variants(t)} \cup {Header("bare", t)})

\* one call of authenticateUser
Authenticate(h, db) ==
    /\ LET r == authenticateUser(h, secret, now, users, db) IN
         last' = [op |-> "authenticateUser", header |-> h, db |-> db, code |-> r.code,
                  message |-> r.message, userId |-> r.auth.userId]
    /\ UNCHANGED <<store, flight, secret, now, users, nextId, tok, cookie>>

\* one call of a userRouter procedure
CallProtected(proc, h, input, db) ==
    /\ LET r == callProcedure(proc, h, input, secret, now, users, db) IN
         /\ users' = r.users
         /\ last' = [op |-> "procedure", proc |-> proc, header |-> h,
                     bodyEntered |-> r.bodyEntered, hasAuth |-> r.hasAuth, code |-> r.code]
    /\ UNCHANGED <<store, flight, secret, now, nextId, tok, cookie>>

\* UserRepository.delete, used directly
RepoDelete(id) ==
    /\ HasId(users, id)
    /\ users' = {u \in users : u.id # id}
    /\ last' = Idle
    /\ UNCHANGED <<store, flight, secret, now, nextId, tok, cookie>>

\* UserRepository.update of the e-mail, used directly; the unique index holds
RepoUpdate(id, e) ==
    /\ HasId(users, id)
    /\ isValidEmail(e)
    /\ ~HasEmail(users, e)
    /\ users' = {IF u.id = id THEN [u EXCEPT !.email = e] ELSE u : u \in users}
    /\ last' = Idle
    /\ UNCHANGED <<store, flight, secret, now, nextId, tok, cookie>>

InitAuth ==
    /\ secret \in AuthSecrets
    /\ now = 0
    /\ users = {}
    /\ nextId = 1
    /\ tok = EmptyToken
    /\ cookie = NoCookie
    /\ store = InitialAuthState
    /\ flight = NoFlight
    /\ last = Idle

NextAuth ==
    \/ \E raw \in AuthEmails, p \in RegisterPasswords :
         \E db \in (IF p = Strong1 THEN DbStates ELSE {"up"}) :
           \E salt \in (IF db = "up" /\ p = Strong1 THEN Salts ELSE {"s1"}) : Register(raw, p, db, salt)
    \/ \E raw \in AuthEmails, p \in LoginPasswords :
         \E db \in (IF p = Strong1 THEN {"up", "findFails"} ELSE {"up"}) : Login(raw, p, db)
    \/ \E h \in Headers(tok) :
         \E db \in (IF h = Bearer(tok) THEN {"up", "findFails"} ELSE {"up"}) : Authenticate(h, db)
    \/ \E proc \in Procedures, h \in {NoHeader, Bearer(tok)} :
         \E e \in (IF proc = "updateProfile" THEN LowerEmails ELSE {Email("a", FALSE, FALSE, TRUE)}) :
           CallProtected(proc, h, e, "up")
    \/ \E u \in users : RepoDelete(u.id)
    \/ \E u \in users, e \in LowerEmails : RepoUpdate(u.id, e)
    \/ Tick
    \/ \E s \in AuthSecrets : SetSecret(s)

SpecAuth == InitAuth /\ [][NextAuth]_vars

\* the account operations alone: register, login and the repository, at one
\* instant and under one secret
NextAccounts ==
    \/ \E raw \in AuthEmails, p \in RegisterPasswords, db \in Faults \ {"verifyFails"}, salt \in Salts :
         Register(raw, p, db, salt)
    \/ \E raw \in AuthEmails, p \in LoginPasswords, db \in {"up", "findFails", "verifyFails"} : Login(raw, p, db)
    \/ \E u \in users : RepoDelete(u.id)
    \/ \E u \in users, e \in LowerEmails : RepoUpdate(u.id, e)

SpecAccounts == InitAuth /\ [][NextAccounts]_vars

\* the e-mail texts updateProfileSchema (z.string().email()) and the format
\* test of UserRepository.update let through: well formed, unpadded, any case
UpdateEmails == {Email(n, u, FALSE, TRUE) : n \in EmailNames, u \in BOOLEAN}

\* the operations that hand an e-mail to the repository
NextEmails ==
    \/ \E raw \in AuthEmails, p \in {Strong1}, salt \in Salts : Register(raw, p, "up", salt)
    \/ \E raw \in AuthEmails, p \in LoginPasswords : Login(raw, p, "up")
    \/ \E h \in {NoHeader, Bearer(tok)}, e \in UpdateEmails : CallProtected("updateProfile", h, e, "up")
    \/ \E u \in users, e \in UpdateEmails : RepoUpdate(u.id, e)
    \/ \E u \in users : RepoDelete(u.id)

SpecEmails == InitAuth /\ [][NextEmails]_vars

(***************************************************************************)
(* Concurrent register requests: the handler yields at each await          *)
(***************************************************************************)
REGISTRATION_SUCCESS == "User registered successfully"
REGISTRATION_ERROR == "An unexpected error occurred during registration"

\* UserRepository.create: prisma.user.create under the unique index on email;
\* a duplicate (P2002) is rethrown as a plain Error
create(us, email, h, id) ==
    IF HasEmail(us, email)
    THEN [ok |-> FALSE, error |-> USER_EXISTS, users |-> us]
    ELSE [ok |-> TRUE, error |-> "none", users |-> us \cup {User(id, email, h)}]

Requests == {"r1", "r2"}
\* e-mail texts of the concurrent requests: all pass the input schema
RaceEmails == LowerEmails \cup {Email("a", TRUE, TRUE, TRUE)}

InFlight(pc, email, found, digest, code, message) ==
    [pc |-> pc, email |-> email, found |-> found, digest |-> digest, code |-> code, message |-> message]
Waiting == InFlight("waiting", BlankEmail, FALSE, Digest(Strong1, "none"), "none", "none")

\* register up to the first await: input schema, strength check, findByEmail
RaceLookup(r, raw) ==
    /\ flight[r].pc = "waiting"
    /\ LET email == ToLowerCase(Trim(raw))
           existingUser == HasEmail(users, email)
       IN flight' = [flight EXCEPT ![r] =
                       IF existingUser
                       THEN InFlight("done", email, TRUE, @.digest, "CONFLICT", USER_EXISTS)
                       ELSE InFlight("looked", email, FALSE, @.digest, "none", "none")]
    /\ UNCHANGED <<secret, now, users, nextId, tok, cookie, store, last>>

\* register from the lookup to the second await: PasswordUtils.hash
RaceHash(r, salt) ==
    /\ flight[r].pc = "looked"
    /\ flight' = [flight EXCEPT ![r].pc = "hashed", ![r].digest = hash(Strong1, salt).value]
    /\ UNCHANGED <<secret, now, users, nextId, tok, cookie, store, last>>

\* register from the hash to its end: userRepository.create, then the reply or
\* the catch block that turns every error but a TRPCError into INTERNAL_SERVER_ERROR
RaceCreate(r) ==
    /\ flight[r].pc = "hashed"
    /\ LET newUser == create(users, flight[r].email, flight[r].digest, IdOf(nextId)) IN
         /\ users' = newUser.users
         /\ nextId' = IF newUser.ok THEN nextId + 1 ELSE nextId
         /\ flight' = [flight EXCEPT ![r] =
                         IF newUser.ok
                         THEN InFlight("done", @.email, FALSE, @.digest, "OK", REGISTRATION_SUCCESS)
                         ELSE InFlight("done", @.email, FALSE, @.digest, "INTERNAL_SERVER_ERROR", REGISTRATION_ERROR)]
    /\ UNCHANGED <<secret, now, tok, cookie, store, last>>

\* the reply is delivered; the client may send another request
RaceReturn(r) ==
    /\ flight[r].pc = "done"
    /\ flight' = [flight EXCEPT ![r] = Waiting]
    /\ UNCHANGED <<secret, now, users, nextId, tok, cookie, store, last>>

InitRace ==
    /\ secret = "k1"
    /\ now = 0
    /\ users = {}
    /\ nextId = 1
    /\ tok = EmptyToken
    /\ cookie = NoCookie
    /\ store = InitialAuthState
    /\ flight = [r \in Requests |-> Waiting]
    /\ last = Idle

NextRace ==
    \/ \E r \in Requests, raw \in RaceEmails : RaceLookup(r, raw)
    \/ \E r \in Requests, salt \in Salts : RaceHash(r, salt)
    \/ \E r \in Requests : RaceCreate(r)
    \/ \E r \in Requests : RaceReturn(r)

SpecRace == InitRace /\ [][NextRace]_vars

(***************************************************************************)
(* Route Guard: the two middleware functions of the repository             *)
(***************************************************************************)
\* a pathname as head \o tail; heads are chosen so that none is a prefix of
\* another, so pathname.startsWith(route) is head = route
Pathname(head, tail) == [head |-> head, tail |-> tail]
StartsWith(p, route) == p.head = route
Pathnames ==
    {Pathname(h, t) : h \in {"/dashboard", "/profile", "/settings", "/datasets", "/chat",
                             "/login", "/register", "/admin", "/about"},
                      t \in {"", "/x"}}

\* the route lists of the guard in src/unnamed/part_012
PROTECTED_ROUTES == {"/dashboard", "/profile", "/settings", "/datasets", "/chat"}
PUBLIC_ROUTES == {"/login", "/register"}
ADMIN_ROUTES == {"/admin"}
\* the route lists of the guard in apps/web/src/middleware.ts
WEB_PROTECTED_ROUTES == {"/dashboard"}
WEB_PUBLIC_ROUTES == {"/login"}

\* request.cookies.get('auth-token')?.value: undefined, '' or a text
GuardCookie(kind, text) == [kind |-> kind, text |-> text]
NoGuardCookie == GuardCookie("absent", JsonBundle(EmptyToken, StoredUser("", BlankEmail)))
Truthy(c) == c.kind = "text"

\* the cookie texts a browser may send: a stored bundle as written, one that
\* does not parse, one without the fields, one whose token has two segments,
\* one whose token no longer verifies, one whose token is 'a..b'
GuardCookies ==
    LET t == jwt_sign(SignInput("u1", Email("a", FALSE, FALSE, TRUE)), "k1", 0)
        b == JsonBundle(t, StoredUser("u1", Email("a", FALSE, FALSE, TRUE)))
    IN {NoGuardCookie, GuardCookie("empty", b), GuardCookie("text", b),
        GuardCookie("text", [b EXCEPT !.parses = FALSE]),
        GuardCookie("text", [b EXCEPT !.shape = "missing"]),
        GuardCookie("text", [b EXCEPT !.token.segs = 2]),
        GuardCookie("text", [b EXCEPT !.token.sig = Hmac("forged", t.payload)]),
        GuardCookie("text", [b EXCEPT !.token.garble = "emptySegment"])}

\* isValidTokenStructure: JSON.parse, the three fields, three dot-separated parts
isValidTokenStructure(x) ==
    IF ~x.parses THEN FALSE
    ELSE IF x.shape # "ok" \/ x.token.empty \/ x.user.userId = "" \/ x.user.email.name = "" THEN FALSE
    ELSE IF x.token.segs # 3 THEN FALSE
    ELSE TRUE

\* the redirect query parameter: null, or a text by its leading characters
RedirectParams == {"null", "", "/settings", "//evil.example/x", "/\\evil.example/x",
                   "https://evil.example/x", "settings", "/login", "/login?redirect=/login"}
\* redirectParam && redirectParam.startsWith('/')
LeadingSlash(q) == q \in {"/settings", "//evil.example/x", "/\\evil.example/x", "/login", "/login?redirect=/login"}

\* new URL(text, request.url): a text that starts with two slashes, or with a
\* slash and a backslash, names another host; '/path' stays on the request's origin
AppOrigin == "app"
Url(origin, path) == [origin |-> origin, path |-> path]
NewURL(text, base) ==
    IF text \in {"//evil.example/x", "/\\evil.example/x", "https://evil.example/x"}
    THEN Url("evil.example", "/x")
    ELSE Url(base, text)

Request(p, c, q) == [pathname |-> p, cookie |-> c, redirect |-> q]
Requests4Guard == {Request(p, c, q) : p \in Pathnames, c \in GuardCookies, q \in RedirectParams}

NoParams == [redirect |-> "none", reason |-> "none"]
Redirect(url, params, del) ==
    [kind |-> "redirect", url |-> url, params |-> params, deletesCookie |-> del, headers |-> {}]
NextResponse(headers) ==
    [kind |-> "next", url |-> Url("none", "none"), params |-> NoParams, deletesCookie |-> FALSE,
     headers |-> headers]
PathText(p) == <<p.head, p.tail>>

SecurityHeaders == {"X-Frame-Options", "X-Content-Type-Options", "Referrer-Policy"}

\* the part_012 guard with the defensive headers on every request it lets through
middlewareStructural_HeadersAlways(request) ==
    IF Truthy(request.cookie) /\ ~isValidTokenStructure(request.cookie.text)
    THEN Redirect(NewURL("/login", AppOrigin), NoParams, TRUE)
    ELSE IF ~Truthy(request.cookie) /\ (\E route \in PROTECTED_ROUTES : StartsWith(request.pathname, route))
    THEN Redirect(NewURL("/login", AppOrigin),
                  [redirect |-> PathText(request.pathname), reason |-> "auth-required"], FALSE)
    ELSE NextResponse(SecurityHeaders)

\* middleware of src/unnamed/part_012
middlewareStructural(request) ==
    LET authTokenCookie == request.cookie
        hasCredential == Truthy(authTokenCookie) /\ isValidTokenStructure(authTokenCookie.text)
        isProtectedRoute == \E route \in PROTECTED_ROUTES : StartsWith(request.pathname, route)
        isPublicRoute == \E route \in PUBLIC_ROUTES : StartsWith(request.pathname, route)
        isAdminRoute == \E route \in ADMIN_ROUTES : StartsWith(request.pathname, route)
    IN
    IF Truthy(authTokenCookie) /\ ~hasCredential
    THEN Redirect(NewURL("/login", AppOrigin), NoParams, TRUE)
    ELSE IF isProtectedRoute /\ ~hasCredential
    THEN Redirect(NewURL("/login", AppOrigin),
                  [redirect |-> PathText(request.pathname), reason |-> "auth-required"], FALSE)
    ELSE IF isAdminRoute /\ ~hasCredential
    THEN Redirect(NewURL("/login", AppOrigin),
                  [redirect |-> PathText(request.pathname), reason |-> "admin-required"], FALSE)
    ELSE IF isPublicRoute /\ hasCredential
    THEN Redirect(NewURL(IF LeadingSlash(request.redirect) THEN request.redirect ELSE "/dashboard", AppOrigin),
                  NoParams, FALSE)
    ELSE IF isProtectedRoute /\ hasCredential
    THEN NextResponse(SecurityHeaders)
    ELSE NextResponse({})

\* middleware of apps/web/src/middleware.ts
middleware(request) ==
    LET authToken == request.cookie
        hasCredential == Truthy(authToken)
        isProtectedRoute == \E route \in WEB_PROTECTED_ROUTES : StartsWith(request.pathname, route)
        isPublicRoute == \E route \in WEB_PUBLIC_ROUTES : StartsWith(request.pathname, route)
    IN
    IF isProtectedRoute /\ ~hasCredential
    THEN Redirect(NewURL("/login", AppOrigin),
                  [redirect |-> PathText(request.pathname), reason |-> "none"], FALSE)
    ELSE IF isPublicRoute /\ hasCredential
    THEN Redirect(NewURL(IF LeadingSlash(request.redirect) THEN request.redirect ELSE "/dashboard", AppOrigin),
                  NoParams, FALSE)
    ELSE NextResponse({})

\* the two guards; which file the build serves is not fixed by the sources
Guards == {"middleware", "middlewareStructural"}
RunGuard(g, request) == IF g = "middleware" THEN middleware(request) ELSE middlewareStructural(request)

\* one request passes the guard
Guard(g, request) ==
    /\ last' = [op |-> "middleware", guard |-> g, request |-> request, response |-> RunGuard(g, request)]
    /\ UNCHANGED <<secret, now, users, nextId, tok, cookie, store, flight>>

InitGuard ==
    /\ secret = "k1"
    /\ now = 0
    /\ users = {}
    /\ nextId = 1
    /\ tok = EmptyToken
    /\ cookie = NoCookie
    /\ store = InitialAuthState
    /\ flight = NoFlight
    /\ last = Idle

NextGuard == \E g \in Guards, request \in Requests4Guard : Guard(g, request)

SpecGuard == InitGuard /\ [][NextGuard]_vars

(***************************************************************************)
(* Route Guard: the browser follows the redirects of one navigation        *)
(***************************************************************************)
\* nextUrl.pathname of a redirect target on the application's origin
PathOf(text) ==
    IF text \in {"/login", "/login?redirect=/login"} THEN Pathname("/login", "")
    ELSE IF text = "/dashboard" THEN Pathname("/dashboard", "")
    ELSE Pathname("/settings", "")

\* nextUrl.searchParams.get('redirect') of a redirect target
QueryRedirect(text) == IF text = "/login?redirect=/login" THEN "/login" ELSE "null"

\* the request the browser sends for a redirect response: the target's path
\* and redirect parameter, with the cookie unless the response deleted it
Follow(response, request) ==
    Request(PathOf(response.url.path),
            IF response.deletesCookie THEN NoGuardCookie ELSE request.cookie,
            IF response.params = NoParams THEN QueryRedirect(response.url.path)
            ELSE response.params.redirect)

\* a navigation: the guard serving it, the first and the current request, the
\* redirects followed, and whether it is still being redirected
Navigation(g, first, request, hops, status) ==
    [guard |-> g, first |-> first, request |-> request, hops |-> hops, status |-> status]

\* no page opened yet
NoNavigation ==
    Navigation("none", Request(Pathname("/about", ""), NoGuardCookie, "null"),
               Request(Pathname("/about", ""), NoGuardCookie, "null"), 0, "idle")

\* the browser opens a page
Navigate(g, request) ==
    /\ flight.status # "following"
    /\ flight' = Navigation(g, request, request, 0, "following")
    /\ last' = Idle
    /\ UNCHANGED <<secret, now, users, nextId, tok, cookie, store>>

\* the guard answers the current request; the browser follows a redirect
Hop ==
    /\ flight.status = "following"
    /\ flight.hops < MaxHops
    /\ LET response == RunGuard(flight.guard, flight.request) IN
         /\ flight' = IF response.kind = "next"
                      THEN [flight EXCEPT !.status = "continued"]
                      ELSE IF response.url.origin # AppOrigin
                      THEN [flight EXCEPT !.status = "left", !.hops = @ + 1]
                      ELSE [flight EXCEPT !.request = Follow(response, flight.request), !.hops = @ + 1]
         /\ last' = [op |-> "middleware", guard |-> flight.guard, request |-> flight.request,
                     response |-> response]
    /\ UNCHANGED <<secret, now, users, nextId, tok, cookie, store>>

NextChain ==
    \/ \E g \in Guards, request \in Requests4Guard : Navigate(g, request)
    \/ Hop

InitChain ==
    /\ secret = "k1"
    /\ now = 0
    /\ users = {}
    /\ nextId = 1
    /\ tok = EmptyToken
    /\ cookie = NoCookie
    /\ store = InitialAuthState
    /\ flight = NoNavigation
    /\ last = Idle

SpecChain == InitChain /\ [][NextChain]_vars

(***************************************************************************)
(* A client session: login, logout, and the token presented afterwards     *)
(***************************************************************************)
\* authRouter.login followed by the store's login(token, user): storeToken
SessionLogin(raw, p) ==
    /\ LET r == login(raw, p, users, "up", secret, now) IN
         /\ tok' = IF r.code = "OK" THEN r.token ELSE tok
         /\ cookie' = IF r.code = "OK"
                      THEN authLogin(r.token, ClientUser(r.user.id, r.user.email), cookie, now, "production", FALSE).cookie
                      ELSE cookie
         /\ store' = IF r.code = "OK"
                     THEN authLogin(r.token, ClientUser(r.user.id, r.user.email), cookie, now, "production", FALSE).store
                     ELSE store
         /\ last' = [op |-> "login", email |-> ToLowerCase(Trim(raw)),
                     code |-> r.code, message |-> r.message, calls |-> r.calls]
    /\ UNCHANGED <<flight, secret, now, users, nextId>>

\* the store's logout: clearToken, then the client state is reset
Logout ==
    /\ cookie.present
    /\ cookie' = authLogout(cookie).cookie
    /\ store' = authLogout(cookie).store
    /\ last' = [op |-> "logout"]
    /\ UNCHANGED <<flight, secret, now, users, nextId, tok>>

InitSession ==
    /\ secret = "k1"
    /\ now = 0
    /\ users = {User("u1", Email("a", FALSE, FALSE, TRUE), Digest(Strong1, "s1")),
                User("u2", Email("b", FALSE, FALSE, TRUE), Digest(Strong2, "s2"))}
    /\ nextId = 3
    /\ tok = EmptyToken
    /\ cookie = NoCookie
    /\ store = InitialAuthState
    /\ flight = NoFlight
    /\ last = Idle

NextSession ==
    \/ \E raw \in LowerEmails, p \in LoginPasswords : SessionLogin(raw, p)
    \/ Logout
    \/ \E h \in Headers(tok), db \in {"up", "findFails"} : Authenticate(h, db)
    \/ CodecVerify(tok)
    \/ \E u \in users : RepoDelete(u.id)
    \/ Tick
    \/ \E s \in AuthSecrets : SetSecret(s)

SpecSession == InitSession /\ [][NextSession]_vars

(***************************************************************************)
(* Properties                                                              *)
(***************************************************************************)
Fails(r, m) == ~r.ok /\ r.error = m
ReadDone == last.op \in ReadOps
\* the cookie text holds a token that verifies and whose claims are the stored user
ValidBundle(x, s, clock) ==
    /\ x.parses /\ ShapeOk(x)
    /\ verifyJWT(x.token, s, clock).ok
    /\ x.token.payload.userId = x.user.userId
    /\ x.token.payload.email = x.user.email
\* the stored user copy differs from the claims of a token that itself verifies
TamperedUser(x, s, clock) ==
    /\ x.parses /\ ShapeOk(x)
    /\ verifyJWT(x.token, s, clock).ok
    /\ \/ x.token.payload.userId # x.user.userId
       \/ x.token.payload.email # x.user.email

\* C3: storeToken(token, user) for a token that verifies under the current
\* secret, followed by a read, returns exactly {token, user} and keeps the cookie.
C3_RoundTrip ==
    (/\ ReadDone
     /\ CookiesGet(last.before, now)
     /\ last.before.edits = 0
     /\ ValidBundle(last.before.text, secret, now))
    => /\ last.result = Bundle(last.before.text.token, last.before.text.user)
       /\ cookie = last.before

\* C4: a read returns a bundle only if its token verifies and the verified
\* claims equal the stored user; a bundle whose user copy was changed without
\* re-signing is not returned and its cookie is purged.
C4_OnlyMatchingBundle ==
    ReadDone =>
      /\ ~last.result.isNull =>
            /\ verifyJWT(last.result.token, secret, now).ok
            /\ last.result.token.payload.userId = last.result.user.userId
            /\ last.result.token.payload.email = last.result.user.email
      /\ (CookiesGet(last.before, now) /\ TamperedUser(last.before.text, secret, now)) =>
            /\ last.result.isNull
            /\ cookie = NoCookie

C4_Witness ==
    /\ last.op = "getStoredToken"
    /\ CookiesGet(last.before, now)
    /\ TamperedUser(last.before.text, secret, now)
    /\ last.result.isNull
    /\ cookie = NoCookie

\* C5: a read that returns null while a cookie was present has removed the
\* cookie; after any read that returns null the credential store is empty.
C5_NullMeansPurged ==
    (ReadDone /\ last.result.isNull) =>
      /\ ~CookiesGet(cookie, now)
      /\ CookiesGet(last.before, now) => cookie = NoCookie

C5_Witness ==
    /\ last.op = "getStoredToken"
    /\ CookiesGet(last.before, now)
    /\ ~last.before.text.parses
    /\ last.result.isNull
    /\ cookie = NoCookie

\* the token text has three segments that decode
Decodes(t) == ~t.empty /\ t.segs = 3 /\ t.garble = "none"
VerifyDone == last.op = "verifyJWT" /\ secret # ""

\* C8 as stated: not three segments gives malformed, past expiry gives
\* expired, three segments unexpired with a signature that does not match
\* gives invalid, and a freshly signed token verifies to its userId and email.
C8_AsStated ==
    VerifyDone =>
      LET t == last.token
          r == last.result
          matches == t.garble = "none" /\ t.sig = Hmac(secret, t.payload)
      IN /\ (t.empty \/ t.segs # 3) => Fails(r, TOKEN_MALFORMED)
         /\ (~t.empty /\ t.segs = 3 /\ now >= t.payload.exp) => Fails(r, TOKEN_EXPIRED)
         /\ (~t.empty /\ t.segs = 3 /\ now < t.payload.exp /\ ~matches) => Fails(r, TOKEN_INVALID)
         /\ (~t.empty /\ t.segs = 3 /\ now < t.payload.exp /\ matches) =>
               r.ok /\ r.value.userId = t.payload.userId /\ r.value.email = t.payload.email

\* C8 amended: malformed when the text is not three segments or a segment
\* does not decode; otherwise invalid when the signature does not match,
\* expired or not; otherwise expired at or past exp; otherwise the payload.
C8_Outcomes ==
    VerifyDone =>
      LET t == last.token
          r == last.result
      IN /\ ~Decodes(t) => Fails(r, TOKEN_MALFORMED)
         /\ (Decodes(t) /\ t.sig # Hmac(secret, t.payload)) => Fails(r, TOKEN_INVALID)
         /\ (Decodes(t) /\ t.sig = Hmac(secret, t.payload) /\ now >= t.payload.exp) => Fails(r, TOKEN_EXPIRED)
         /\ (Decodes(t) /\ t.sig = Hmac(secret, t.payload) /\ now < t.payload.exp) =>
               r.ok /\ r.value.userId = t.payload.userId /\ r.value.email = t.payload.email

C8_Witness ==
    /\ VerifyDone
    /\ last.token.segs = 3 /\ last.token.garble = "header"
    /\ Fails(last.result, TOKEN_MALFORMED)

AuthDone == last.op = "authenticateUser"
\* the token verifies now and its user is in the repository with the same e-mail
TokenCurrent(t) ==
    /\ ~t.empty
    /\ verifyJWT(t, secret, now).ok
    /\ HasId(users, t.payload.userId)
    /\ ById(users, t.payload.userId).email = t.payload.email

\* C1: authenticateUser called with 'Bearer <token>' for the token login just
\* issued, while the token verifies and its user is unchanged, returns a
\* context with that user's id.
C1_LoginThenAuthenticate ==
    (AuthDone /\ last.header = Bearer(tok) /\ last.db = "up" /\ TokenCurrent(tok))
    => last.code = "OK" /\ last.userId = tok.payload.userId

\* C2: the body of a protected procedure runs only with a context that
\* carries the authenticated user.
C2_BodyOnlyAfterAuth ==
    (last.op = "procedure" /\ last.bodyEntered) => last.hasAuth

\* the login request names no user record / names one with another password
UnknownEmail(raw, p) ==
    Trim(raw).fmt /\ p.len >= 1 /\ ~HasEmail(users, ToLowerCase(Trim(raw)))
WrongPassword(raw, p) ==
    /\ Trim(raw).fmt /\ p.len >= 1 /\ HasEmail(users, ToLowerCase(Trim(raw)))
    /\ ByEmail(users, ToLowerCase(Trim(raw))).passwordHash.pw # p.id

\* C6: in every repository state, a login for an unknown e-mail and a login
\* with a wrong password fail with the same code and message, UNAUTHORIZED and
\* 'Invalid email or password'.
C6_SameFailure ==
    \A r1 \in AuthEmails, r2 \in AuthEmails, p1 \in LoginPasswords, p2 \in LoginPasswords :
      (UnknownEmail(r1, p1) /\ WrongPassword(r2, p2)) =>
        LET o1 == login(r1, p1, users, "up", secret, now)
            o2 == login(r2, p2, users, "up", secret, now)
        IN /\ o1.code = o2.code /\ o1.message = o2.message
           /\ o1.user = o2.user /\ o1.token = o2.token
           /\ o1.code = "UNAUTHORIZED" /\ o1.message = INVALID_CREDENTIALS

C6_Witness ==
    /\ last.op = "login"
    /\ last.code = "UNAUTHORIZED"
    /\ last.calls = <<"findByEmail", "verify">>
    /\ \E r1 \in AuthEmails : UnknownEmail(r1, Strong1)

\* C7: authenticateUser returns a context only for a token that verifies now
\* and whose user is in the repository under the token's e-mail; a token whose
\* user was deleted or whose e-mail changed is rejected with UNAUTHORIZED.
C7_OnlyCurrentUsers ==
    AuthDone =>
      /\ last.code = "OK" =>
            TokenCurrent(last.header.token) /\ last.userId = last.header.token.payload.userId
      /\ (/\ last.header.kind # "absent"
          /\ Decodes(last.header.token)
          /\ \/ ~HasId(users, last.header.token.payload.userId)
             \/ ById(users, last.header.token.payload.userId).email # last.header.token.payload.email)
         => last.code = "UNAUTHORIZED"

C7_Witness ==
    /\ AuthDone
    /\ last.header = Bearer(tok)
    /\ ~tok.empty
    /\ verifyJWT(tok, secret, now).ok
    /\ ~HasId(users, tok.payload.userId)
    /\ last.code = "UNAUTHORIZED"

\* C9: authenticateUser reports an expired token as 'Token has expired', a
\* bad signature as 'Invalid token', any other verification failure as
\* 'Authentication failed', and every failure with code UNAUTHORIZED.
C9_ErrorMapping ==
    (AuthDone /\ last.header.kind # "absent" /\ ~last.header.token.empty) =>
      LET v == verifyJWT(last.header.token, secret, now) IN
      /\ Fails(v, TOKEN_EXPIRED) => last.message = "Token has expired"
      /\ Fails(v, TOKEN_INVALID) => last.message = "Invalid token"
      /\ (~v.ok /\ v.error \notin {TOKEN_EXPIRED, TOKEN_INVALID}) => last.message = "Authentication failed"
      /\ last.code # "OK" => last.code = "UNAUTHORIZED"

\* C10: register with a strong password for an e-mail that has a record
\* fails with CONFLICT, calls neither hash nor create, and leaves the users
\* unchanged.
C10_ConflictNoWrite ==
    \A raw \in AuthEmails, p \in StrongPasswords, db \in {"up", "createFails"}, salt \in Salts :
      (Trim(raw).fmt /\ HasEmail(users, ToLowerCase(Trim(raw)))) =>
        LET r == register(raw, p, users, db, salt, IdOf(nextId)) IN
        /\ r.code = "CONFLICT" /\ r.message = USER_EXISTS
        /\ r.calls = <<"findByEmail">>
        /\ r.users = users

C10_Witness ==
    /\ last.op = "register"
    /\ last.code = "CONFLICT"
    /\ last.calls = <<"findByEmail">>
    /\ HasEmail(users, last.email)

\* both requests ran findByEmail for the same e-mail before either created it,
\* and both have finished
BothLookedFirst(r1, r2) ==
    /\ r1 # r2
    /\ flight[r1].pc = "done" /\ flight[r2].pc = "done"
    /\ flight[r1].email = flight[r2].email
    /\ ~flight[r1].found /\ ~flight[r2].found

\* C11: when two register calls for the same new e-mail both finish the lookup
\* before either creates the user, one record exists for it, one call succeeds
\* and the other fails with CONFLICT 'User with this email already exists'.
C11_RaceLoserGetsConflict ==
    \A r1 \in Requests, r2 \in Requests :
      BothLookedFirst(r1, r2) =>
        /\ Cardinality({u \in users : u.email = flight[r1].email}) = 1
        /\ {flight[r1].code, flight[r2].code} = {"OK", "CONFLICT"}
        /\ \A r \in {r1, r2} : flight[r].code # "OK" => flight[r].message = USER_EXISTS

\* C12: register with a password that fails strength validation fails with
\* BAD_REQUEST, calls neither findByEmail nor create, and leaves the users
\* unchanged.
C12_WeakPasswordNoPersistence ==
    \A raw \in AuthEmails, p \in Passwords, db \in DbStates, salt \in Salts :
      ~validatePasswordStrength(p).isValid =>
        LET r == register(raw, p, users, db, salt, IdOf(nextId)) IN
        /\ r.code = "BAD_REQUEST"
        /\ r.calls = <<>>
        /\ r.users = users

C12_Witness ==
    /\ last.op = "register"
    /\ last.code = "BAD_REQUEST"
    /\ last.message = "Password does not meet strength requirements"
    /\ last.calls = <<>>
    /\ last.email \in LowerEmails
    /\ users # {}

\* the fields of a value handed to the client include the password hash
HasHash(v) == "passwordHash" \in DOMAIN v

\* C13: the user returned by register, by login and in authenticateUser's
\* context has no passwordHash field, and the payload of the token login signs
\* has exactly the fields userId, email, iat and exp.
C13_HashStaysOnServer ==
    /\ \A raw \in AuthEmails, p \in RegisterPasswords, db \in DbStates, salt \in Salts :
         ~HasHash(register(raw, p, users, db, salt, IdOf(nextId)).user)
    /\ \A raw \in AuthEmails, p \in LoginPasswords, db \in {"up", "findFails"} :
         LET r == login(raw, p, users, db, secret, now) IN
         /\ ~HasHash(r.user)
         /\ r.code = "OK" => DOMAIN r.token.payload = {"userId", "email", "iat", "exp"}
    /\ \A h \in Headers(tok), db \in {"up", "findFails"} :
         ~HasHash(authenticateUser(h, secret, now, users, db).auth.user)

C13_Witness ==
    /\ last.op = "login"
    /\ last.code = "OK"
    /\ ~tok.empty
    /\ HasEmail(users, last.email)
    /\ HasHash(ByEmail(users, last.email))
    /\ ~HasHash(login(last.email, Strong1, users, "up", secret, now).user)

GuardDone == last.op = "middleware"
StructurallyValid(c) == Truthy(c) /\ isValidTokenStructure(c.text)
StructurallyInvalid(c) == Truthy(c) /\ ~isValidTokenStructure(c.text)
LoginUrl == Url(AppOrigin, "/login")
\* the path is neither protected, public-only nor admin
Unclassified(p) ==
    \A route \in PROTECTED_ROUTES \cup PUBLIC_ROUTES \cup ADMIN_ROUTES : ~StartsWith(p, route)

\* C14: for a path under /dashboard, with no cookie the guard redirects to
\* /login with redirect=<path> and reason=auth-required; with a structurally
\* valid cookie the request continues with the three defensive headers.
C14_DashboardGuard ==
    (GuardDone /\ StartsWith(last.request.pathname, "/dashboard")) =>
      /\ last.request.cookie.kind = "absent" =>
           /\ last.response.kind = "redirect"
           /\ last.response.url = LoginUrl
           /\ last.response.params =
                [redirect |-> PathText(last.request.pathname), reason |-> "auth-required"]
      /\ StructurallyValid(last.request.cookie) =>
           /\ last.response.kind = "next"
           /\ SecurityHeaders \subseteq last.response.headers

\* C15: whenever the cookie is present but structurally invalid, on every path
\* the guard answers with a redirect to the login page that deletes the cookie.
C15_InvalidCookieCleared ==
    (GuardDone /\ StructurallyInvalid(last.request.cookie)) =>
      /\ last.response.kind = "redirect"
      /\ last.response.url = LoginUrl
      /\ last.response.deletesCookie

\* C16 as stated: on an unclassified path the request continues unmodified
\* whatever the cookie state.
C16_AsStated ==
    (GuardDone /\ Unclassified(last.request.pathname)) => last.response = NextResponse({})

\* C16: on an unclassified path the request continues unmodified when the
\* cookie is absent, empty or structurally valid; with a structurally invalid
\* cookie it either continues unmodified or is redirected to /login with the
\* cookie deleted.
C16_UnclassifiedPasses ==
    (GuardDone /\ Unclassified(last.request.pathname)) =>
      /\ ~StructurallyInvalid(last.request.cookie) => last.response = NextResponse({})
      /\ StructurallyInvalid(last.request.cookie) =>
           last.response \in {NextResponse({}), Redirect(LoginUrl, NoParams, TRUE)}

C16_Witness ==
    /\ GuardDone
    /\ last.guard = "middlewareStructural"
    /\ Unclassified(last.request.pathname)
    /\ StructurallyValid(last.request.cookie)
    /\ last.response = NextResponse({})

\* C17: with a structurally valid cookie on a public-only path the guard
\* redirects to the redirect parameter when it is present and path-relative,
\* otherwise to /dashboard, and the target is always on the application's origin.
C17_RedirectStaysOnOrigin ==
    (/\ GuardDone
     /\ StructurallyValid(last.request.cookie)
     /\ \E route \in PUBLIC_ROUTES : StartsWith(last.request.pathname, route)
     /\ last.response.kind = "redirect")
    => /\ last.response.url.origin = AppOrigin
       /\ last.response.url.path \in {last.request.redirect, "/dashboard"}

\* the client has logged out while holding a token issued earlier
LoggedOut == ~cookie.present /\ ~tok.empty
\* the token is signed under the current secret, is before its exp, and its
\* user exists with the same e-mail
StillValid(t) ==
    /\ t.sig = Hmac(secret, t.payload) /\ secret # ""
    /\ now < t.payload.exp
    /\ HasId(users, t.payload.userId)
    /\ ById(users, t.payload.userId).email = t.payload.email

\* C18: after logout a token issued earlier, still before its exp, with the
\* secret unchanged and its user unchanged, is accepted by verifyJWT and by
\* authenticateUser.
C18_TokenSurvivesLogout ==
    (LoggedOut /\ StillValid(tok)) =>
      /\ (last.op = "verifyJWT" /\ last.token = tok) => last.result.ok
      /\ (AuthDone /\ last.header = Bearer(tok) /\ last.db = "up") => last.code = "OK"

\* the token was signed under a secret that is no longer the current one
SignedUnderOldSecret(t) == ~t.empty /\ t.sig = Hmac(t.sig.key, t.payload) /\ t.sig.key # secret
\* the last read found a readable cookie whose token was signed under an old secret
ReadOfOldBundle ==
    /\ ReadDone
    /\ CookiesGet(last.before, now)
    /\ SignedUnderOldSecret(last.before.text.token)

\* C19 as stated: after the secret changes, verifyJWT of every token signed
\* under the previous secret fails with 'Token is invalid', and getStoredToken
\* of a bundle holding such a token returns null and purges the cookie.
C19_AsStated ==
    /\ [][secret' # secret =>
            \A t \in SignedTokens(now) :
              t.sig.key = secret => Fails(verifyJWT(t, secret', now'), TOKEN_INVALID)]_vars
    /\ [](ReadOfOldBundle => last.result.isNull /\ cookie = NoCookie)

\* C19: after the secret changes to another configured value, verifyJWT of
\* every token signed under the previous secret fails with 'Token is invalid',
\* expired or not; when the secret is unset it fails with 'JWT secret is not
\* configured'; getStoredToken of a bundle holding such a token returns null
\* and purges the cookie.
C19_Rotation ==
    /\ \A t \in SignedTokens(now) :
         SignedUnderOldSecret(t) =>
           /\ secret # "" => Fails(verifyJWT(t, secret, now), TOKEN_INVALID)
           /\ secret = "" => Fails(verifyJWT(t, secret, now), SECRET_MISSING)
    /\ ReadOfOldBundle => last.result.isNull /\ cookie = NoCookie

C19_Witness ==
    /\ ReadOfOldBundle
    /\ secret # ""
    /\ last.before.text = JsonBundle(last.before.text.token,
                                     StoredUser(last.before.text.token.payload.userId,
                                                last.before.text.token.payload.email))
    /\ now >= last.before.text.token.payload.iat
    /\ Fails(verifyJWT(last.before.text.token, secret, now), TOKEN_INVALID)
    /\ last.result.isNull
    /\ cookie = NoCookie

SignDone == last.op = "signJWT"
\* the payload is no object, or its userId or e-mail is missing or blank
InvalidPayload(p) == ~p.isObject \/ p.userId = "" \/ p.email.name = ""
InvalidPayloadErrors ==
    {"Invalid payload: payload must be an object",
     "Invalid payload: userId is required and must be a non-empty string",
     "Invalid payload: email is required and must be a non-empty string"}

\* C20: signJWT of an invalid payload fails with an 'Invalid payload' error
\* whether or not the secret is configured; 'JWT secret is not configured' is
\* reported only for payloads that pass validation.
C20_PayloadBeforeSecret ==
    /\ \A p \in SignInputs, s \in Secrets :
         InvalidPayload(p) =>
           /\ ~signJWT(p, s, now).ok
           /\ signJWT(p, s, now).error \in InvalidPayloadErrors
           /\ signJWT(p, s, now).error = signJWT(p, "", now).error
    /\ SignDone =>
         /\ InvalidPayload(last.input) => ~last.result.ok /\ last.result.error \in InvalidPayloadErrors
         /\ Fails(last.result, SECRET_MISSING) => ~InvalidPayload(last.input) /\ secret = ""

C20_Witness ==
    /\ SignDone
    /\ secret = ""
    /\ InvalidPayload(last.input)
    /\ last.input.isObject
    /\ last.result.error \in InvalidPayloadErrors

DecodeDone == last.op = "decodeJWT"

\* C21: decodeJWT of the token signJWT returns for a valid payload gives the
\* payload's userId and email with iat < exp and exp - iat = 86400, under
\* whatever secret is current when it is decoded.
C21_DecodeRoundTrip ==
    /\ \A p \in SignInputs, s \in Secrets :
         signJWT(p, s, now).ok =>
           LET d == decodeJWT(signJWT(p, s, now).value) IN
           /\ d.ok
           /\ d.value.userId = p.userId /\ d.value.email = p.email
           /\ d.value.iat < d.value.exp
           /\ d.value.exp - d.value.iat = 86400
    /\ (DecodeDone /\ ~tok.empty /\ last.token = tok) =>
         /\ last.result.ok
         /\ last.result.value = tok.payload
         /\ last.result.value.exp - last.result.value.iat = 86400

C21_Witness ==
    /\ DecodeDone
    /\ ~tok.empty
    /\ last.token = tok
    /\ tok.sig.key # secret
    /\ now > tok.payload.iat
    /\ last.result.ok
    /\ last.result.value.userId = tok.payload.userId

(***************************************************************************)
(* Token Store: the cookie write                                           *)
(***************************************************************************)
StoreDone == last.op = "storeToken"

\* what every successful write has in common: the serialized bundle under
\* 'auth-token', one day of life, SameSite strict, path '/'
WrittenAs(w, t, u, clock) ==
    /\ ~w.thrown
    /\ w.cookie.present
    /\ w.cookie.name = "auth-token"
    /\ w.cookie.text = JsonBundle(t, u)
    /\ w.cookie.expiresAt = clock + 86400
    /\ w.cookie.attrs.sameSite = "strict"
    /\ w.cookie.attrs.path = "/"

\* a failed write throws the fixed message and leaves the jar as it was
FailedAs(w, c) == w.thrown /\ w.message = "Failed to store authentication token" /\ w.cookie = c

\* C22 as stated: storeToken writes the serialized bundle under 'auth-token'
\* with a 1-day expiry, SameSite strict and path '/', and the secure flag is
\* off only when the environment is development; a throwing cookie write
\* fails with 'Failed to store authentication token'.
C22_AsStated ==
    /\ (StoreDone /\ ~last.thrown) =>
         /\ cookie.present
         /\ cookie.name = "auth-token"
         /\ cookie.expiresAt = now + 86400
         /\ cookie.attrs.sameSite = "strict"
         /\ cookie.attrs.path = "/"
         /\ cookie.attrs.secure = (last.env # "development")
    /\ (StoreDone /\ last.thrown) => last.message = "Failed to store authentication token"

\* C22: storeToken writes the serialized bundle under 'auth-token' with a
\* 1-day expiry, SameSite strict and path '/', and the secure flag is on
\* exactly when the environment is production (off in development, test and
\* any other environment); a throwing cookie write fails with 'Failed to
\* store authentication token' and writes nothing.
C22_CookieWrite ==
    /\ \A user \in ClientUsers \ {NoStoreUser}, env \in NodeEnvs :
         \A t \in IssuedTokens(user.id, user.email, now) :
           LET u == StoredUser(user.id, user.email) IN
             /\ WrittenAs(storeToken(t, u, cookie, now, env, FALSE), t, u, now)
             /\ storeToken(t, u, cookie, now, env, FALSE).cookie.attrs.secure = (env = "production")
             /\ FailedAs(storeToken(t, u, cookie, now, env, TRUE), cookie)
    /\ (StoreDone /\ ~last.thrown) => cookie.attrs.secure = (last.env = "production")
    /\ (StoreDone /\ last.thrown) => last.message = "Failed to store authentication token"

\* a write in a test build: the cookie is stored without the secure flag
C22_Witness ==
    /\ StoreDone
    /\ last.env = "test"
    /\ ~last.thrown
    /\ cookie.present
    /\ cookie.name = "auth-token"
    /\ ~cookie.attrs.secure
    /\ cookie.expiresAt = now + 86400

(***************************************************************************)
(* Password Hasher: strength validation                                    *)
(***************************************************************************)
ValidateDone == last.op = "validatePasswordStrength"

\* the six rules about the characters of a text, each tested on its own, in
\* rule order
CharacterRules(p) ==
    (IF p.len < 8 THEN <<"Password must be at least 8 characters long">> ELSE <<>>)
    \o (IF p.len > 128 THEN <<"Password must be less than 128 characters long">> ELSE <<>>)
    \o (IF ~p.lower THEN <<"Password must contain at least one lowercase letter">> ELSE <<>>)
    \o (IF ~p.upper THEN <<"Password must contain at least one uppercase letter">> ELSE <<>>)
    \o (IF ~p.digit THEN <<"Password must contain at least one number">> ELSE <<>>)
    \o (IF ~p.special THEN <<"Password must contain at least one special character">> ELSE <<>>)

\* all seven rules, none stopping the others
AllRules(p) == (IF p.blank THEN <<"Password is required">> ELSE <<>>) \o CharacterRules(p)

RegisterInputOk(raw, p) ==
    Trim(raw).fmt /\ p.len >= 8 /\ p.len <= 128 /\ validatePasswordStrength(p).isValid

LoginInputOk(raw, p) == Trim(raw).fmt /\ p.len >= 1

\* a call of register in which a lookup, the hashing or the create throws
RegisterFault(raw, p, us, db) ==
    /\ RegisterInputOk(raw, p)
    /\ \/ db = "findFails"
       \/ ~HasEmail(us, ToLowerCase(Trim(raw))) /\ db \in {"hashFails", "createFails"}

\* a call of login in which the lookup, the verification or the signing throws
LoginFault(raw, p, us, db, s) ==
    /\ LoginInputOk(raw, p)
    /\ \/ db = "findFails"
       \/ /\ HasEmail(us, ToLowerCase(Trim(raw)))
          /\ \/ db = "verifyFails"
             \/ verify(p, ByEmail(us, ToLowerCase(Trim(raw))).passwordHash) /\ s = ""

DomainCodes == {"OK", "BAD_REQUEST", "CONFLICT", "UNAUTHORIZED"}

Unauthenticated == AuthState(FALSE, NoStoreUser, FALSE)

\* C25: login(token, user) stores the credential {token, {userId: user.id,
\* email: user.email}} and only then marks the store authenticated with that
\* user; when storing throws, the store ends unauthenticated with user null and
\* isLoading false, the error is rethrown and nothing is written, so an
\* authenticated result always comes with the credential stored.  logout
\* removes the credential and leaves the store unauthenticated.
C25_LoginStoresFirst ==
    /\ \A user \in ClientUsers, env \in NodeEnvs, setThrows \in BOOLEAN :
         \A t \in IssuedTokens(user.id, user.email, now) :
           LET r == authLogin(t, user, cookie, now, env, setThrows) IN
             /\ (setThrows \/ user.isNull) => r.thrown /\ r.store = Unauthenticated /\ r.cookie = cookie
             /\ (setThrows /\ ~user.isNull) => r.message = "Failed to store authentication token"
             /\ ~(setThrows \/ user.isNull) => ~r.thrown /\ r.store = AuthState(TRUE, user, FALSE)
             /\ r.store.isAuthenticated =>
                  /\ r.cookie.present
                  /\ r.cookie.text = JsonBundle(t, StoredUser(user.id, user.email))
    /\ authLogout(cookie).store = Unauthenticated
    /\ ~authLogout(cookie).cookie.present
    /\ (last.op = "login" /\ ~last.stored) => last.thrown /\ store = Unauthenticated
    /\ (last.op = "login" /\ last.stored) => ~last.thrown /\ store = AuthState(TRUE, last.user, FALSE) /\ cookie.present
    /\ last.op = "logout" => store = Unauthenticated /\ ~cookie.present

\* a login whose cookie write throws, made while the store was loading or
\* authenticated: the store ends unauthenticated and the error is rethrown
C25_Witness ==
    /\ last.op = "login"
    /\ ~last.user.isNull
    /\ ~last.stored
    /\ last.thrown
    /\ last.message = "Failed to store authentication token"
    /\ store = Unauthenticated
    /\ cookie.present

\* C28: the store is authenticated iff it holds a user, whatever sequence of
\* login, logout, initialize and setLoading ran; isLoading is false right after
\* login, logout and initialize, failed or not.
C28_UserIffAuthenticated ==
    /\ store.isAuthenticated <=> ~store.user.isNull
    /\ last.op \in {"login", "logout", "initialize"} => ~store.isLoading
    /\ \A readThrows \in BOOLEAN :
         LET r == initialize(cookie, secret, now, readThrows) IN
           /\ r.store.isAuthenticated <=> ~r.store.user.isNull
           /\ ~r.store.isLoading

\* initialize fails while the store holds a user: the store is reset
C28_Witness ==
    /\ last.op = "initialize"
    /\ last.thrown
    /\ store = Unauthenticated
    /\ ~cookie.present
    /\ now > 0

\* C29: whenever the auth store reports authenticated a credential cookie is
\* stored, and a Token Store read that purges the cookie does not leave the
\* auth store authenticated.
C29_StoreMatchesCookie ==
    /\ store.isAuthenticated => cookie.present
    /\ (last.op \in ReadOps /\ last.purged) => ~store.isAuthenticated

(***************************************************************************)
(* E-mail normalisation                                                    *)
(***************************************************************************)
Lowercase(e) == ~e.upper /\ ~e.pad

WellFormedCookie(c) ==
    /\ c.text.parses
    /\ c.text.shape = "ok"
    /\ ~c.text.token.empty
    /\ c.text.user.userId # ""
    /\ c.text.user.email.name # ""
    /\ c.text.token.segs = 3
    /\ c.text.token.garble # "emptySegment"

\* C27: the guard treats a cookie as structurally valid iff its value parses
\* as JSON, has token, user.userId and user.email, and the token has exactly
\* three dot-separated segments each of which is non-empty; a cookie whose
\* token is 'a..b' is handled as structurally invalid (redirect to /login with
\* the cookie deleted).
C27_StructuralValidity ==
    /\ (GuardDone /\ Truthy(last.request.cookie)) =>
         (isValidTokenStructure(last.request.cookie.text) <=> WellFormedCookie(last.request.cookie))
    /\ (/\ GuardDone
        /\ last.guard = "middlewareStructural"
        /\ Truthy(last.request.cookie)
        /\ ~WellFormedCookie(last.request.cookie))
       => last.response.kind = "redirect" /\ last.response.deletesCookie

(***************************************************************************)
(* Route Guard: redirect chains                                            *)
(***************************************************************************)
Navigating == flight.status # "idle"

\* the routes the serving guard treats as public-only
PublicOnly(g, p) ==
    \E route \in (IF g = "middleware" THEN WEB_PUBLIC_ROUTES ELSE PUBLIC_ROUTES) : StartsWith(p, route)

\* the cookie the serving guard takes for a credential
HasCredential(g, c) == IF g = "middleware" THEN Truthy(c) ELSE StructurallyValid(c)

\* C30: following the guard's redirects from any first request ends in a
\* 'continue' decision after finitely many hops: the chain never leaves the
\* guard without one and never runs on; a structurally invalid cookie causes
\* at most one redirect; an authenticated request to a public-only path ends
\* on a page that is not public-only.
C30_RedirectsTerminate ==
    Navigating =>
      /\ flight.hops < MaxHops
      /\ flight.status \in {"following", "continued"}
      /\ StructurallyInvalid(flight.first.cookie) => flight.hops <= 1
      /\ (/\ flight.status = "continued"
          /\ HasCredential(flight.guard, flight.first.cookie)
          /\ PublicOnly(flight.guard, flight.first.pathname))
         => ~PublicOnly(flight.guard, flight.request.pathname)

====
